---- MODULE Spec2Model ----
(***************************************************************************)
(* The VLM sampling path of the gst-dsexample element:                     *)
(*   - ThreadSafeQueue<VLMFrameData>  (dsexample_lib/threadsafe_queue.h)   *)
(*   - the rate limiter / admission sequence in gst_dsexample_transform_ip *)
(*   - the worker thread gst_dsexample_vlm_worker                          *)
(*   - gst_dsexample_start / gst_dsexample_stop and the vlm-enabled        *)
(*     property                                                            *)
(*   - the publish path gst_dsexample_send_to_vlm_service ->               *)
(*     VLMRedisStreamManager::add_vlm_result -> RedisClient::xadd          *)
(*   - RedisClient (dsexample_lib/redis_client.h): connection handling and *)
(*     the stream commands XADD, XGROUP CREATE, XREADGROUP, XACK, with the *)
(*     log server's side of each command                                   *)
(*   - the same client at the level of records: ids <ms>-<seq>, field     *)
(*     maps, the reply parsers, and VLMRedisStreamManager's publish,       *)
(*     fetch-by-source, acknowledge and configure_streams calls            *)
(* The mutex m_ is modelled explicitly because wait_and_pop() holds it      *)
(* between the evaluation of the wait predicate and the moment the thread  *)
(* is parked on cond_, while terminate() touches is_terminated_ and cond_  *)
(* without taking it.                                                      *)
(***************************************************************************)
EXTENDS Integers, Sequences, FiniteSets, TLC

\* ------------------------------------------------------------------ bounds
MaxBatches  == 2      \* buffers handed to transform_ip
MaxStarts   == 2      \* calls of gst_dsexample_start
MaxSets     == 1      \* writes of the vlm-enabled property
MaxCapacity == 2      \* largest vlm-queue-size tried
MaxInterval == 2      \* largest vlm-frame-interval tried
MaxCalls    == 5      \* queue calls issued by the API callers
MaxOps      == 3      \* calls issued by the callers of the Redis client
MaxClock    == 2      \* largest reading of the server's clock (ms)

\* ------------------------------------------------------- program constants
DefaultFrameInterval == 30

\* ----------------------------------------------------------------- threads
Worker    == "w"
App       == "app"
Producers == {"p1", "p2"}
Callers   == {"c1", "c2"}
Threads   == {Worker, App} \cup Producers \cup Callers
NoThread  == "none"

VARIABLES
  vlm_enabled,          \* GstDsExample::vlm_enabled
  vlm_thread_running,   \* GstDsExample::vlm_thread_running
  vlm_queue_max_size,   \* GstDsExample::vlm_queue_max_size
  vlm_frame_interval,   \* GstDsExample::vlm_frame_interval
  vlm_frame_counter,    \* GstDsExample::vlm_frame_counter
  frame_num,            \* GstDsExample::frame_num
  joinable,             \* vlm_worker_thread.joinable()
  aborted,              \* std::terminate() was called
  data_queue_,          \* ThreadSafeQueue::data_queue_
  is_terminated_,       \* ThreadSafeQueue::is_terminated_
  m_,                   \* owner of ThreadSafeQueue::m_
  pc,                   \* position of every thread
  frames,               \* per producer: frames of the batch still to visit
  res,                  \* per thread: value returned by the last pop (<<>> = none)
  pushed,               \* history: items in the order push() stored them
  popped,               \* history: items in the order consumers received them
  evicted,              \* history: items removed by the producer's try_pop
  sent,                 \* history: items handed to send_to_vlm_service
  hist,                 \* history: one record per buffer seen by transform_ip
  termDone,             \* history: some terminate() call has returned
  late,                 \* history: per thread, its wait began after termDone
  nstarts, nsets, ncalls,
  connected_,           \* RedisClient::connected_
  context_,             \* RedisClient::context_: "null", "open", or "err" (err set)
  mutex_,               \* owner of RedisClient::mutex_
  net,                  \* environment: the server is reachable ("up") or not
  auth,                 \* environment: password use and the server's answer to AUTH
  stream,               \* server: records of vlm:results:stream
  grp,                  \* server: the consumer group vlm_processors of the stream
  op,                   \* per caller: the client call in progress
  rres,                 \* per caller: outcome of its last completed client call
  xadds,                \* history: items of the XADD requests written to the handle
  reads,                \* history: one record per XREADGROUP served
  fault,                \* history: undefined behaviour met ("none" if not)
  nops,
  vlm_stream_,          \* VLMRedisStreamManager::vlm_stream_
  frame_stream_,        \* VLMRedisStreamManager::frame_stream_
  consumer_group_,      \* VLMRedisStreamManager::consumer_group_
  db,                   \* server: per key, its records with ids and field lists
  groups,               \* server: the consumer groups, as << key, group >>
  wire,                 \* history: the commands written to the handle
  out                   \* outcome of the last call on the manager or client

vars == << vlm_enabled, vlm_thread_running, vlm_queue_max_size,
           vlm_frame_interval, vlm_frame_counter, frame_num, joinable,
           aborted, data_queue_, is_terminated_, m_, pc, frames, res,
           pushed, popped, evicted, sent, hist, termDone, late,
           nstarts, nsets, ncalls, connected_, context_, mutex_, net,
           auth, stream, grp, op, rres, xadds, reads, fault, nops,
           vlm_stream_, frame_stream_, consumer_group_, db, groups, wire,
           out >>

redis_vars == << connected_, context_, mutex_, net, auth, stream, grp, op,
                 rres, xadds, reads, fault, nops, vlm_stream_, frame_stream_,
                 consumer_group_, db, groups, wire, out >>

data_vars == << vlm_stream_, frame_stream_, consumer_group_, db, groups,
                wire, out >>

queue_vars == << data_queue_, is_terminated_, m_, res, pushed, popped,
                 evicted, termDone, late, ncalls >>

plugin_vars == << vlm_enabled, vlm_thread_running, vlm_queue_max_size,
                  vlm_frame_interval, vlm_frame_counter, frame_num,
                  joinable, aborted, frames, sent, hist, nstarts, nsets >>

\* ----------------------------------------------------------------- helpers
Range(s) == { s[i] : i \in 1..Len(s) }

Min(a, b) == IF a < b THEN a ELSE b

\* the last k elements of s
LastN(s, k) == SubSeq(s, Len(s) - k + 1, Len(s))

IsPrefix(s, t) == Len(s) <= Len(t) /\ SubSeq(t, 1, Len(s)) = s

RECURSIVE IsSubseq(_, _)
IsSubseq(s, t) ==
  IF s = << >> THEN TRUE
  ELSE IF t = << >> THEN FALSE
  ELSE IF Head(s) = Head(t) THEN IsSubseq(Tail(s), Tail(t))
  ELSE IsSubseq(s, Tail(t))

SelectFrame(s, n) == SelectSeq(s, LAMBDA it : it.frame_number = n)

\* batches delivered by the pipeline, as the source ids of their frames in
\* frame_meta_list order (at most one frame per source)
Batches == { << 0 >>, << 0, 1 >>, << 1, 0 >> }

\* VLMFrameData built at gstdsexample.cpp:663-669 (width, height and format
\* are the constants 1920, 1080, "RGB")
VLMFrameData(src, fnum) == [source_id |-> src, frame_number |-> fnum]

\* variant: the test is made on the counter before the increment
Admit_BeforeIncrement(counter, interval) == (counter - 1) % interval = 0

\* the rate limiter's test
Admit(counter, interval) == counter % interval = 0

\* threads parked on cond_
Waiters == { t \in Threads : pc[t] \in {"wap_waiting", "wapv_waiting"} }

\* where a parked thread resumes: it re-acquires m_ and re-evaluates its predicate
Resume(p) == IF p = "wap_waiting" THEN "wap_lock" ELSE "wapv_lock"

\* where a queue call returns to
RetPc(t) == IF t = Worker THEN "w_ret" ELSE IF t = App THEN "stop_join" ELSE "idle"

\* pc after thread t moves to np and the threads in W are notified
PcAfter(t, np, W) ==
  [x \in Threads |-> IF x = t THEN np
                     ELSE IF x \in W THEN Resume(pc[x]) ELSE pc[x]]

\* variant: push notifies nobody
NotifySets_None == { {} }

\* cond_.notify_one(): at most one parked thread is made runnable
NotifySets == IF Waiters = {} THEN { {} } ELSE { {x} : x \in Waiters }

\* -------------------------------------------------------------------- Init
\* gst_dsexample_init: the element's VLM fields and its empty queue
ElementInit ==
  /\ vlm_enabled = TRUE
  /\ vlm_thread_running = FALSE
  /\ vlm_queue_max_size \in 1..MaxCapacity
  /\ vlm_frame_interval \in 1..MaxInterval
  /\ vlm_frame_counter = 0
  /\ frame_num = 0
  /\ joinable = FALSE
  /\ aborted = FALSE
  /\ data_queue_ = << >>
  /\ is_terminated_ = FALSE
  /\ m_ = NoThread
  /\ pc = [t \in Threads |-> IF t = Worker THEN "w_off"
                             ELSE IF t = App THEN "ready" ELSE "idle"]
  /\ frames = [p \in Producers |-> << >>]
  /\ res = [t \in Threads |-> << >>]
  /\ pushed = << >>
  /\ popped = << >>
  /\ evicted = << >>
  /\ sent = << >>
  /\ hist = << >>
  /\ termDone = FALSE
  /\ late = [t \in Threads |-> FALSE]
  /\ nstarts = 0
  /\ nsets = 0
  /\ ncalls = 0

\* the consumer group as XGROUP CREATE <stream> vlm_processors 0 MKSTREAM
\* leaves it: cursor before the first record, nothing pending
NewGroup == [exists |-> TRUE, last |-> 0, pel |-> {}]

NoGroup == [exists |-> FALSE, last |-> 0, pel |-> {}]

NoOp == [kind |-> "none"]

NoCall == [call |-> "none"]

\* the keys and group names in use on the server: the manager's defaults and
\* the ones its callers may configure
Keys == {"vlm:results:stream", "vlm:frames:stream", "s"}

GroupNames == {"vlm_processors", "g"}

\* what no caller and no server activity leaves behind
RedisQuiet ==
  /\ mutex_ = NoThread
  /\ stream = << >>
  /\ op = [c \in Callers |-> NoOp]
  /\ rres = [c \in Callers |-> NoOp]
  /\ xadds = << >>
  /\ reads = << >>
  /\ fault = "none"
  /\ nops = 0

\* the names the manager's constructor binds
DefaultNames ==
  /\ vlm_stream_ = "vlm:results:stream"
  /\ frame_stream_ = "vlm:frames:stream"
  /\ consumer_group_ = "vlm_processors"

\* the record-level view of the server and of the calls (db, groups, wire,
\* out) at rest; the specifications of the element and of the client's
\* concurrent callers follow the server through stream and grp only
DataQuiet ==
  /\ DefaultNames
  /\ db = [k \in Keys |-> << >>]
  /\ groups = {}
  /\ wire = << >>
  /\ out = NoCall

\* RedisClient(host, port, password): no handle, not connected
ClientInit ==
  /\ connected_ = FALSE
  /\ context_ = "null"
  /\ grp = NoGroup
  /\ net \in {"up", "down"}
  /\ auth \in {"none", "ok", "refused", "silent"}
  /\ RedisQuiet
  /\ DataQuiet

\* VLMRedisStreamManager("localhost", 6379) built by gst_dsexample_init while
\* the server is in condition n: no password; the groups are created only
\* when connect() succeeded
ManagerInit(n) ==
  /\ net = n
  /\ auth = "none"
  /\ connected_ = (n = "up")
  /\ context_ = IF n = "up" THEN "open" ELSE "null"
  /\ grp = IF n = "up" THEN NewGroup ELSE NoGroup
  /\ RedisQuiet
  /\ DataQuiet

Init == ElementInit /\ ManagerInit("up")

\* ------------------------------------------------------ ThreadSafeQueue<T>
\* Every member that takes std::lock_guard on m_ runs as one step that needs
\* m_ free.  wait_and_pop keeps m_ across steps.

\* std::shared_ptr<T> wait_and_pop(): lock m_ (first entry or after a wakeup)
\* and evaluate the predicate  !data_queue_.empty() || is_terminated_
WapLock(t) ==
  /\ ~aborted
  /\ UNCHANGED redis_vars
  /\ pc[t] = "wap_lock"
  /\ m_ = NoThread
  /\ m_' = t
  /\ pc' = [pc EXCEPT ![t] = IF data_queue_ # << >> \/ is_terminated_
                             THEN "wap_check" ELSE "wap_block"]
  /\ UNCHANGED << data_queue_, is_terminated_, res, pushed, popped, evicted,
                  termDone, late, ncalls >>
  /\ UNCHANGED plugin_vars

\* cond_.wait(lock): the predicate was false; release m_ and park on cond_
WapBlock(t) ==
  /\ ~aborted
  /\ UNCHANGED redis_vars
  /\ pc[t] = "wap_block"
  /\ m_' = NoThread
  /\ pc' = [pc EXCEPT ![t] = "wap_waiting"]
  /\ UNCHANGED << data_queue_, is_terminated_, res, pushed, popped, evicted,
                  termDone, late, ncalls >>
  /\ UNCHANGED plugin_vars

\* variant: wait_and_pop hands out the newest item
WapCheckResult_Lifo(q, term) ==
  IF term THEN [val |-> << >>, queue |-> q]
  ELSE [val |-> << q[Len(q)] >>, queue |-> SubSeq(q, 1, Len(q) - 1)]

\* variant: wait_and_pop drains the queue before it honours termination
WapCheckResult_Drain(q, term) ==
  IF q = << >> THEN [val |-> << >>, queue |-> q]
  ELSE [val |-> << Head(q) >>, queue |-> Tail(q)]

\* variant: wait_and_pop returns the front item and leaves it in the queue
WapCheckResult_Peek(q, term) ==
  IF term THEN [val |-> << >>, queue |-> q]
  ELSE [val |-> << Head(q) >>, queue |-> q]

\* the second read of is_terminated_ after the wait: "if (is_terminated_)
\* return nullptr;" otherwise return the front item
WapCheckResult(q, term) ==
  IF term THEN [val |-> << >>, queue |-> q]
  ELSE [val |-> << Head(q) >>, queue |-> Tail(q)]

WapCheck(t) ==
  /\ ~aborted
  /\ UNCHANGED redis_vars
  /\ pc[t] = "wap_check"
  /\ LET r == WapCheckResult(data_queue_, is_terminated_) IN
       /\ res' = [res EXCEPT ![t] = r.val]
       /\ data_queue_' = r.queue
       /\ popped' = popped \o r.val
  /\ m_' = NoThread
  /\ pc' = [pc EXCEPT ![t] = RetPc(t)]
  /\ UNCHANGED << is_terminated_, pushed, evicted, termDone, late, ncalls >>
  /\ UNCHANGED plugin_vars

\* void wait_and_pop(T &value): predicate  !data_queue_.empty()  only
WapVLock(t) ==
  /\ ~aborted
  /\ UNCHANGED redis_vars
  /\ pc[t] = "wapv_lock"
  /\ m_ = NoThread
  /\ IF data_queue_ # << >>
     THEN /\ res' = [res EXCEPT ![t] = << Head(data_queue_) >>]
          /\ popped' = Append(popped, Head(data_queue_))
          /\ data_queue_' = Tail(data_queue_)
          /\ pc' = [pc EXCEPT ![t] = RetPc(t)]
          /\ m_' = NoThread
     ELSE /\ m_' = t
          /\ pc' = [pc EXCEPT ![t] = "wapv_block"]
          /\ UNCHANGED << res, popped, data_queue_ >>
  /\ UNCHANGED << is_terminated_, pushed, evicted, termDone, late, ncalls >>
  /\ UNCHANGED plugin_vars

WapVBlock(t) ==
  /\ ~aborted
  /\ UNCHANGED redis_vars
  /\ pc[t] = "wapv_block"
  /\ m_' = NoThread
  /\ pc' = [pc EXCEPT ![t] = "wapv_waiting"]
  /\ UNCHANGED << data_queue_, is_terminated_, res, pushed, popped, evicted,
                  termDone, late, ncalls >>
  /\ UNCHANGED plugin_vars

\* std::condition_variable::wait may return without a notification
SpuriousWakeup(t) ==
  /\ ~aborted
  /\ UNCHANGED redis_vars
  /\ t \in Waiters
  /\ pc' = [pc EXCEPT ![t] = Resume(pc[t])]
  /\ UNCHANGED << data_queue_, is_terminated_, m_, res, pushed, popped,
                  evicted, termDone, late, ncalls >>
  /\ UNCHANGED plugin_vars

\* variant: terminate toggles the flag
TerminateFlag_Toggle(old) == ~old

\* terminate(), first statement: is_terminated_ = true (m_ is not taken)
TerminateFlag(old) == TRUE

TermSet(t) ==
  /\ ~aborted
  /\ UNCHANGED redis_vars
  /\ pc[t] = "term_set"
  /\ is_terminated_' = TerminateFlag(is_terminated_)
  /\ pc' = [pc EXCEPT ![t] = "term_notify"]
  /\ UNCHANGED << data_queue_, m_, res, pushed, popped, evicted, termDone,
                  late, ncalls >>
  /\ UNCHANGED plugin_vars

\* terminate(), second statement: cond_.notify_all()
TermNotify(t) ==
  /\ ~aborted
  /\ UNCHANGED redis_vars
  /\ pc[t] = "term_notify"
  /\ pc' = PcAfter(t, RetPc(t), Waiters)
  /\ termDone' = TRUE
  /\ UNCHANGED << data_queue_, is_terminated_, m_, res, pushed, popped,
                  evicted, late, ncalls >>
  /\ UNCHANGED plugin_vars

\* push(T): store under m_ and notify_one; W is the set of threads woken
QPush(t, v, np, W) ==
  /\ m_ = NoThread
  /\ data_queue_' = Append(data_queue_, v)
  /\ pushed' = Append(pushed, v)
  /\ pc' = PcAfter(t, np, W)

\* variant: try_pop removes the newest item
TryPopResult_Newest(q) ==
  IF q = << >> THEN [val |-> << >>, queue |-> q]
  ELSE [val |-> << q[Len(q)] >>, queue |-> SubSeq(q, 1, Len(q) - 1)]

\* bool try_pop(T&) / std::shared_ptr<T> try_pop(): what is removed and left
TryPopResult(q) ==
  IF q = << >> THEN [val |-> << >>, queue |-> q]
  ELSE [val |-> << Head(q) >>, queue |-> Tail(q)]

\* int size() const
Size(q) == Len(q)

\* ------------------------------------------- gst_dsexample_transform_ip
\* variant: the counter also advances while sampling is disabled
NextCounter_Always(counter, enabled) == counter + 1

\* Entry of transform_ip for one buffer: frame_num++, and when vlm_enabled,
\* vlm_frame_counter++ once for the whole batch.
NextCounter(counter, enabled) == IF enabled THEN counter + 1 ELSE counter

P_Begin(p, batch) ==
  /\ ~aborted
  /\ UNCHANGED redis_vars
  /\ pc[p] = "idle"
  /\ pc[App] = "started"
  /\ frame_num < MaxBatches
  /\ frame_num' = frame_num + 1
  /\ vlm_frame_counter' = NextCounter(vlm_frame_counter, vlm_enabled)
  /\ hist' = Append(hist, [counter |-> vlm_frame_counter', frames |-> batch,
                           frame_number |-> frame_num', enabled |-> vlm_enabled,
                           by |-> p])
  /\ IF vlm_enabled
     THEN /\ frames' = [frames EXCEPT ![p] =
                 [i \in 1..Len(batch) |-> VLMFrameData(batch[i], frame_num')]]
          /\ pc' = [pc EXCEPT ![p] = "p_frame"]
     ELSE UNCHANGED << frames, pc >>
  /\ UNCHANGED << vlm_enabled, vlm_thread_running, vlm_queue_max_size,
                  vlm_frame_interval, joinable, aborted, data_queue_,
                  is_terminated_, m_, res, pushed, popped, evicted, sent,
                  termDone, late, nstarts, nsets, ncalls >>

\* where the frame loop continues after the current frame
AfterFrame(fs) == IF Tail(fs) = << >> THEN "idle" ELSE "p_frame"

\* variant: the size test is off by one
QueueFull_OffByOne(n, max) == n > max

\* the producer must drop the oldest item before pushing
QueueFull(n, max) == n >= max

\* One iteration of the frame loop up to the size() call: the modulo test,
\* and for an admitted frame  size() >= vlm_queue_max_size.
P_Frame(p) ==
  /\ ~aborted
  /\ UNCHANGED redis_vars
  /\ pc[p] = "p_frame"
  /\ IF Admit(vlm_frame_counter, vlm_frame_interval)
     THEN /\ m_ = NoThread
          /\ pc' = [pc EXCEPT ![p] =
                 IF QueueFull(Size(data_queue_), vlm_queue_max_size)
                 THEN "p_drop" ELSE "p_push"]
          /\ UNCHANGED frames
     ELSE /\ pc' = [pc EXCEPT ![p] = AfterFrame(frames[p])]
          /\ frames' = [frames EXCEPT ![p] = Tail(frames[p])]
  /\ UNCHANGED << vlm_enabled, vlm_thread_running, vlm_queue_max_size,
                  vlm_frame_interval, vlm_frame_counter, frame_num, joinable,
                  aborted, data_queue_, is_terminated_, m_, res, pushed,
                  popped, evicted, sent, hist, termDone, late, nstarts,
                  nsets, ncalls >>

\* vlm_frame_queue->try_pop(dropped): drop the oldest item
P_Drop(p) ==
  /\ ~aborted
  /\ UNCHANGED redis_vars
  /\ pc[p] = "p_drop"
  /\ m_ = NoThread
  /\ LET r == TryPopResult(data_queue_) IN
       /\ data_queue_' = r.queue
       /\ evicted' = evicted \o r.val
  /\ pc' = [pc EXCEPT ![p] = "p_push"]
  /\ UNCHANGED << is_terminated_, m_, res, pushed, popped, termDone, late,
                  ncalls >>
  /\ UNCHANGED plugin_vars

\* vlm_frame_queue->push(std::move(vlm_frame)), then the g_print that reads
\* size() (no effect on the state), then l_frame = l_frame->next
P_Push(p) ==
  /\ ~aborted
  /\ UNCHANGED redis_vars
  /\ pc[p] = "p_push"
  /\ \E W \in NotifySets :
       QPush(p, Head(frames[p]), AfterFrame(frames[p]), W)
  /\ frames' = [frames EXCEPT ![p] = Tail(frames[p])]
  /\ UNCHANGED << vlm_enabled, vlm_thread_running, vlm_queue_max_size,
                  vlm_frame_interval, vlm_frame_counter, frame_num, joinable,
                  aborted, is_terminated_, m_, res, popped, evicted, sent,
                  hist, termDone, late, nstarts, nsets, ncalls >>

\* -------------------------------------------------------------- RedisClient
\* bool is_connected() const
IsConnected(connected, context) == connected /\ context # "null"

\* redisConnect() followed by the test  context_ == nullptr || context_->err:
\* the handle connect() keeps
RedisConnect(n) == IF n = "up" THEN "open" ELSE "null"

\* ensure_connected() of a client built without a password, run with no other
\* caller in between: is_connected(), then connect() if that said no
EnsureConnected(connected, context, n) ==
  IF IsConnected(connected, context) \/ connected
  THEN [ok |-> TRUE, connected |-> connected, context |-> context]
  ELSE [ok |-> RedisConnect(n) = "open",
        connected |-> RedisConnect(n) = "open",
        context |-> RedisConnect(n)]

\* redisCommand on a handle: bytes are written only on a handle without err;
\* a handle whose write or read fails gets err set and stays in place
Written(context) == context = "open"

ContextAfter(context, n) ==
  IF context = "open" /\ n = "down" THEN "err" ELSE context

\* XADD <stream> * ...: the id the server gives to the next record
NextId(str) == Len(str) + 1

\* XADD served: the record is stored at the end of the stream
Stored(str, item) == Append(str, [id |-> NextId(str), item |-> item])

\* std::lock_guard<std::mutex> lock(mutex_) can be taken; variant: no
\* exclusion
MutexFree_Always(owner) == TRUE

MutexFree(owner) == owner = NoThread

\* ------------------------------------------------ replies of the log server
\* a reply as redisCommand returns it: its type and its payload; "null" is
\* the NULL pointer returned when no reply arrived
NullReply == [type |-> "null", val |-> << >>]

FirstN(s, k) == SubSeq(s, 1, Min(k, Len(s)))

Contains(text, word) == \E i \in 1..Len(text) : text[i] = word

\* variant: the id 0 in place of >, i.e. the history from the start
SelectNew_FromStart(str, last, count) ==
  FirstN(SelectSeq(str, LAMBDA r : r.id > 0), count)

\* XREADGROUP ... COUNT count STREAMS <stream> >: the records after the
\* group's last-delivered id, at most count of them
SelectNew(str, last, count) ==
  FirstN(SelectSeq(str, LAMBDA r : r.id > last), count)

\* XADD <stream> * field value ...
ServeXadd(item) ==
  [stream |-> Stored(stream, item), grp |-> grp, was |-> "stored",
   reply |-> [type |-> "string", val |-> << NextId(stream) >>]]

\* XGROUP CREATE <stream> vlm_processors 0 MKSTREAM; refuse = the server
\* answers with an error of another kind
ServeGroupCreate(refuse) ==
  IF refuse
  THEN [stream |-> stream, grp |-> grp, was |-> "refused",
        reply |-> [type |-> "error", val |-> << "WRONGTYPE" >>]]
  ELSE IF grp.exists
  THEN [stream |-> stream, grp |-> grp, was |-> "existed",
        reply |-> [type |-> "error",
                   val |-> << "BUSYGROUP", "Consumer", "Group", "name",
                              "already", "exists" >>]]
  ELSE [stream |-> stream, grp |-> NewGroup, was |-> "created",
        reply |-> [type |-> "status", val |-> << "OK" >>]]

\* XREADGROUP GROUP vlm_processors <consumer> COUNT count STREAMS <stream> >
ServeReadGroup(count) ==
  LET new == SelectNew(stream, grp.last, count) IN
  IF ~grp.exists
  THEN [stream |-> stream, grp |-> grp, was |-> "nogroup",
        reply |-> [type |-> "error", val |-> << "NOGROUP" >>]]
  ELSE IF new = << >>
  THEN [stream |-> stream, grp |-> grp, was |-> "nothing",
        reply |-> [type |-> "nil", val |-> << >>]]
  ELSE [stream |-> stream,
        grp |-> [grp EXCEPT !.last = new[Len(new)].id,
                            !.pel = grp.pel \cup { new[i].id : i \in 1..Len(new) }],
        was |-> "delivered",
        reply |-> [type |-> "array", val |-> new]]

\* XACK <stream> vlm_processors <id>
ServeAck(id) ==
  IF grp.exists /\ id \in grp.pel
  THEN [stream |-> stream, grp |-> [grp EXCEPT !.pel = grp.pel \ {id}],
        was |-> "acked", reply |-> [type |-> "integer", val |-> << >>, integer |-> 1]]
  ELSE [stream |-> stream, grp |-> grp,
        was |-> "notpending", reply |-> [type |-> "integer", val |-> << >>, integer |-> 0]]

Serve(o, refuse) ==
  IF o.kind = "xadd" THEN ServeXadd(o.arg)
  ELSE IF o.kind = "xgroup_create" THEN ServeGroupCreate(refuse)
  ELSE IF o.kind = "xreadgroup" THEN ServeReadGroup(o.arg)
  ELSE ServeAck(o.arg)

\* --------------------------------------------- what the client makes of it
\* xadd: the id if the reply is a string, else the empty string (0)
XaddResult(reply) == IF reply.type = "string" THEN reply.val[1] ELSE 0

\* variant: an error reply never counts as success
XGroupCreateSuccess_NoBusy(reply) == reply.type = "status"

\* xgroup_create: a status reply, or an error reply that mentions BUSYGROUP
XGroupCreateSuccess(reply) ==
  \/ reply.type = "status"
  \/ reply.type = "error" /\ Contains(reply.val, "BUSYGROUP")

\* parse_xread_reply: the messages of an array reply that have an id
ParseXReadReply(reply) ==
  IF reply.type # "array" THEN << >>
  ELSE SelectSeq(reply.val, LAMBDA msg : msg.id # 0)

\* variant: any integer reply counts as success
XAckSuccess_AnyInteger(reply) == reply.type = "integer"

\* xack: an integer reply greater than 0
XAckSuccess(reply) == reply.type = "integer" /\ reply.integer > 0

Ids(msgs) == [i \in 1..Len(msgs) |-> msgs[i].id]

\* the value a call returns for a reply, as [ok, val]
Result(kind, reply) ==
  IF kind = "xadd"
    THEN [ok |-> XaddResult(reply) # 0, val |-> << XaddResult(reply) >>]
  ELSE IF kind = "xgroup_create"
    THEN [ok |-> XGroupCreateSuccess(reply), val |-> << >>]
  ELSE IF kind = "xreadgroup"
    THEN [ok |-> ParseXReadReply(reply) # << >>,
          val |-> Ids(ParseXReadReply(reply))]
  ELSE [ok |-> XAckSuccess(reply), val |-> << >>]

\* ---------------------------------------------- gst_dsexample_vlm_worker
\* while (dsexample->vlm_thread_running) { ... wait_and_pop() ...
W_Loop ==
  /\ ~aborted
  /\ UNCHANGED redis_vars
  /\ pc[Worker] = "w_loop"
  /\ pc' = [pc EXCEPT ![Worker] =
              IF vlm_thread_running THEN "wap_lock" ELSE "w_done"]
  /\ late' = [late EXCEPT ![Worker] = termDone]
  /\ UNCHANGED << data_queue_, is_terminated_, m_, res, pushed, popped,
                  evicted, termDone, ncalls >>
  /\ UNCHANGED plugin_vars

\* if (!frame_data_ptr || !dsexample->vlm_thread_running) break;
WorkerBreaks(r, running) == r = << >> \/ ~running

W_Ret ==
  /\ ~aborted
  /\ UNCHANGED redis_vars
  /\ pc[Worker] = "w_ret"
  /\ pc' = [pc EXCEPT ![Worker] =
              IF WorkerBreaks(res[Worker], vlm_thread_running)
              THEN "w_done" ELSE "w_send"]
  /\ UNCHANGED << data_queue_, is_terminated_, m_, res, pushed, popped,
                  evicted, termDone, late, ncalls >>
  /\ UNCHANGED plugin_vars

\* variant: the item is put in front of the ones handed over before
HandOver_Front(h, r) == r \o h

\* gst_dsexample_send_to_vlm_service(dsexample, frame_data_ptr) is called
\* with the pointer wait_and_pop() just returned
HandOver(h, r) == h \o r

\* where the worker goes after gst_dsexample_send_to_vlm_service returned
\* with the given publish outcome; variant: a failed publish ends the loop
AfterSend_BreakOnFailure(id) == IF id = 0 THEN "w_done" ELSE "w_loop"

\* the call's result is not looked at: the loop goes on
AfterSend(id) == "w_loop"

\* gst_dsexample_send_to_vlm_service(dsexample, frame_data_ptr): redis_enabled
\* and vlm_stream_manager are set by gst_dsexample_init and never cleared, so
\* add_vlm_result -> RedisClient::xadd runs for every item.  The worker is
\* the only thread that uses the element's client, so the call is one step.
\* The id returned is 0 for the empty string.
W_Send ==
  /\ ~aborted
  /\ pc[Worker] = "w_send"
  /\ sent' = HandOver(sent, res[Worker])
  /\ LET e     == EnsureConnected(connected_, context_, net)
         wr    == e.ok /\ Written(e.context)
         deliv == wr /\ net = "up"
         id    == IF deliv THEN NextId(stream) ELSE 0
     IN  /\ connected_' = e.connected
         /\ context_' = IF e.ok THEN ContextAfter(e.context, net) ELSE e.context
         /\ xadds' = IF wr THEN HandOver(xadds, res[Worker]) ELSE xadds
         /\ stream' = IF deliv THEN Stored(stream, res[Worker][1]) ELSE stream
         /\ fault' = IF e.ok /\ e.context = "null" THEN "null_handle" ELSE fault
         /\ pc' = [pc EXCEPT ![Worker] = AfterSend(id)]
  /\ UNCHANGED << vlm_enabled, vlm_thread_running, vlm_queue_max_size,
                  vlm_frame_interval, vlm_frame_counter, frame_num, joinable,
                  aborted, frames, hist, nstarts, nsets >>
  /\ UNCHANGED queue_vars
  /\ UNCHANGED << mutex_, net, auth, grp, op, rres, reads, nops >>
  /\ UNCHANGED data_vars

\* gst_dsexample_send_to_vlm_service when add_vlm_result throws before any
\* byte is written: the catch block logs and the function returns
W_SendThrows ==
  /\ ~aborted
  /\ pc[Worker] = "w_send"
  /\ sent' = HandOver(sent, res[Worker])
  /\ pc' = [pc EXCEPT ![Worker] = AfterSend(0)]
  /\ UNCHANGED << vlm_enabled, vlm_thread_running, vlm_queue_max_size,
                  vlm_frame_interval, vlm_frame_counter, frame_num, joinable,
                  aborted, frames, hist, nstarts, nsets >>
  /\ UNCHANGED queue_vars
  /\ UNCHANGED redis_vars

\* the server becomes unreachable / reachable again
NetChange ==
  /\ ~aborted
  /\ net' = IF net = "up" THEN "down" ELSE "up"
  /\ UNCHANGED << connected_, context_, mutex_, auth, stream, grp, op, rres,
                  xadds, reads, fault, nops >>
  /\ UNCHANGED data_vars
  /\ UNCHANGED queue_vars
  /\ UNCHANGED plugin_vars
  /\ UNCHANGED pc

\* ------------------------------- gst_dsexample_start / gst_dsexample_stop
\* if (vlm_enabled) { vlm_thread_running = true; vlm_worker_thread =
\* std::thread(...); }  Move-assigning to a std::thread that is still
\* joinable calls std::terminate().
Start ==
  /\ ~aborted
  /\ UNCHANGED redis_vars
  /\ pc[App] = "ready"
  /\ nstarts < MaxStarts
  /\ nstarts' = nstarts + 1
  /\ IF vlm_enabled
     THEN /\ vlm_thread_running' = TRUE
          /\ IF joinable
             THEN /\ aborted' = TRUE
                  /\ UNCHANGED << joinable, pc >>
             ELSE /\ joinable' = TRUE
                  /\ pc' = [pc EXCEPT ![App] = "started", ![Worker] = "w_loop"]
                  /\ UNCHANGED aborted
     ELSE /\ pc' = [pc EXCEPT ![App] = "started"]
          /\ UNCHANGED << vlm_thread_running, joinable, aborted >>
  /\ UNCHANGED << vlm_enabled, vlm_queue_max_size, vlm_frame_interval,
                  vlm_frame_counter, frame_num, data_queue_, is_terminated_,
                  m_, frames, res, pushed, popped, evicted, sent, hist,
                  termDone, late, nsets, ncalls >>

\* if (vlm_enabled && vlm_thread_running) { vlm_thread_running = false; ...
StopSignals(enabled, running) == enabled /\ running

StopBegin ==
  /\ ~aborted
  /\ UNCHANGED redis_vars
  /\ pc[App] = "started"
  /\ \A p \in Producers : pc[p] = "idle"
  /\ IF StopSignals(vlm_enabled, vlm_thread_running)
     THEN /\ vlm_thread_running' = FALSE
          /\ pc' = [pc EXCEPT ![App] = "term_set"]
     ELSE /\ pc' = [pc EXCEPT ![App] = "ready"]
          /\ UNCHANGED vlm_thread_running
  /\ UNCHANGED << vlm_enabled, vlm_queue_max_size, vlm_frame_interval,
                  vlm_frame_counter, frame_num, joinable, aborted,
                  data_queue_, is_terminated_, m_, frames, res, pushed,
                  popped, evicted, sent, hist, termDone, late, nstarts,
                  nsets, ncalls >>

\* if (vlm_worker_thread.joinable()) vlm_worker_thread.join();
StopJoin ==
  /\ ~aborted
  /\ UNCHANGED redis_vars
  /\ pc[App] = "stop_join"
  /\ joinable => pc[Worker] = "w_done"
  /\ joinable' = FALSE
  /\ pc' = [pc EXCEPT ![App] = "ready"]
  /\ UNCHANGED << vlm_enabled, vlm_thread_running, vlm_queue_max_size,
                  vlm_frame_interval, vlm_frame_counter, frame_num, aborted,
                  data_queue_, is_terminated_, m_, frames, res, pushed,
                  popped, evicted, sent, hist, termDone, late, nstarts,
                  nsets, ncalls >>

\* gst_dsexample_set_property, case PROP_VLM_ENABLED.  vlm_enabled is read
\* once per call of transform_ip, start and stop, at their first VLM
\* statement, so a write that falls inside one of these calls has the effect
\* of the same write placed right after the call; the action is therefore
\* taken between calls only.
SetVlmEnabled(b) ==
  /\ ~aborted
  /\ UNCHANGED redis_vars
  /\ nsets < MaxSets
  /\ pc[App] \in {"ready", "started"}
  /\ \A p \in Producers : pc[p] = "idle"
  /\ b # vlm_enabled
  /\ nsets' = nsets + 1
  /\ vlm_enabled' = b
  /\ UNCHANGED << vlm_thread_running, vlm_queue_max_size, vlm_frame_interval,
                  vlm_frame_counter, frame_num, joinable, aborted,
                  data_queue_, is_terminated_, m_, pc, frames, res, pushed,
                  popped, evicted, sent, hist, termDone, late, nstarts,
                  ncalls >>

\* ------------------------------------------------------------ the element
\* one streaming thread per element instance
Streaming(p) ==
  \/ \E batch \in Batches : P_Begin(p, batch)
  \/ P_Frame(p)
  \/ P_Drop(p)
  \/ P_Push(p)

WorkerThread ==
  \/ W_Loop
  \/ WapLock(Worker)
  \/ WapBlock(Worker)
  \/ WapCheck(Worker)
  \/ SpuriousWakeup(Worker)
  \/ W_Ret
  \/ W_Send

AppThread ==
  \/ Start
  \/ StopBegin
  \/ TermSet(App)
  \/ TermNotify(App)
  \/ StopJoin
  \/ \E b \in BOOLEAN : SetVlmEnabled(b)

Next ==
  \/ Streaming("p1")
  \/ WorkerThread
  \/ AppThread

Spec == Init /\ [][Next]_vars

\* two streaming threads running the admission sequence on one queue of a
\* started element that is not stopped or reconfigured meanwhile
NextMP ==
  \/ \E p \in Producers : Streaming(p)
  \/ WorkerThread
  \/ Start

SpecMP == Init /\ [][NextMP]_vars

\* the element whose log server may be unreachable at construction and
\* change reachability while the worker publishes
InitW == ElementInit /\ \E n \in {"up", "down"} : ManagerInit(n)

\* One source per batch; the vlm-enabled property is left alone.  The
\* server's condition is read by the publish step only, so its changes are
\* taken right before one.
NextW ==
  \/ P_Begin("p1", << 0 >>)
  \/ P_Frame("p1")
  \/ P_Drop("p1")
  \/ P_Push("p1")
  \/ WorkerThread
  \/ W_SendThrows
  \/ Start
  \/ StopBegin
  \/ TermSet(App)
  \/ TermNotify(App)
  \/ StopJoin
  \/ (pc[Worker] = "w_send" /\ NetChange)

SpecW == InitW /\ [][NextW]_vars

\* The worker is a thread of its own: whenever it can take a step it
\* eventually does.  A wait on cond_ ends by a notification only (no
\* fairness on spurious wakeups).
WorkerRuns ==
  \/ W_Loop
  \/ WapLock(Worker)
  \/ WapBlock(Worker)
  \/ WapCheck(Worker)
  \/ W_Ret
  \/ W_Send
  \/ W_SendThrows

SpecWF == InitW /\ [][NextW]_vars /\ WF_vars(WorkerRuns)

\* ------------------------------------- ThreadSafeQueue used by API callers
\* Threads that call the members of one ThreadSafeQueue directly, in any
\* order; the values pushed are numbered in call order.
CallBegins(c) ==
  /\ ~aborted
  /\ UNCHANGED redis_vars
  /\ pc[c] = "idle"
  /\ ncalls < MaxCalls
  /\ ncalls' = ncalls + 1

\* push(T new_value) / share_push(std::shared_ptr<T>)
C_Push(c) ==
  /\ CallBegins(c)
  /\ \E W \in NotifySets :
       QPush(c, VLMFrameData(0, Len(pushed) + 1), "idle", W)
  /\ UNCHANGED << is_terminated_, m_, res, popped, evicted, termDone, late >>
  /\ UNCHANGED plugin_vars

\* try_pop(T&) / try_pop()
C_TryPop(c) ==
  /\ CallBegins(c)
  /\ m_ = NoThread
  /\ LET r == TryPopResult(data_queue_) IN
       /\ data_queue_' = r.queue
       /\ res' = [res EXCEPT ![c] = r.val]
       /\ popped' = popped \o r.val
  /\ UNCHANGED << is_terminated_, m_, pc, pushed, evicted, termDone, late >>
  /\ UNCHANGED plugin_vars

\* size() / empty(): a read under m_
C_Size(c) ==
  /\ CallBegins(c)
  /\ m_ = NoThread
  /\ res' = [res EXCEPT ![c] = << Size(data_queue_) >>]
  /\ UNCHANGED << data_queue_, is_terminated_, m_, pc, pushed, popped,
                  evicted, termDone, late >>
  /\ UNCHANGED plugin_vars

\* call of std::shared_ptr<T> wait_and_pop()
C_WaitAndPop(c) ==
  /\ CallBegins(c)
  /\ pc' = [pc EXCEPT ![c] = "wap_lock"]
  /\ late' = [late EXCEPT ![c] = termDone]
  /\ UNCHANGED << data_queue_, is_terminated_, m_, res, pushed, popped,
                  evicted, termDone >>
  /\ UNCHANGED plugin_vars

\* call of void wait_and_pop(T &value)
C_WaitAndPopValue(c) ==
  /\ CallBegins(c)
  /\ pc' = [pc EXCEPT ![c] = "wapv_lock"]
  /\ late' = [late EXCEPT ![c] = termDone]
  /\ UNCHANGED << data_queue_, is_terminated_, m_, res, pushed, popped,
                  evicted, termDone >>
  /\ UNCHANGED plugin_vars

\* call of terminate()
C_Terminate(c) ==
  /\ CallBegins(c)
  /\ pc' = [pc EXCEPT ![c] = "term_set"]
  /\ UNCHANGED << data_queue_, is_terminated_, m_, res, pushed, popped,
                  evicted, termDone, late >>
  /\ UNCHANGED plugin_vars

Caller(c) ==
  \/ C_Push(c)
  \/ C_TryPop(c)
  \/ C_Size(c)
  \/ C_WaitAndPop(c)
  \/ C_WaitAndPopValue(c)
  \/ C_Terminate(c)
  \/ WapLock(c)
  \/ WapBlock(c)
  \/ WapCheck(c)
  \/ WapVLock(c)
  \/ WapVBlock(c)
  \/ SpuriousWakeup(c)
  \/ TermSet(c)
  \/ TermNotify(c)

NextQ == \E c \in Callers : Caller(c)

SpecQ == Init /\ [][NextQ]_vars

\* ------------------------------------------ RedisClient used by API callers
\* Threads that call the members of one RedisClient, with the stream and
\* group names of the stream manager.  A member that sends a command keeps
\* mutex_ from the write of the command to the arrival of its reply.
DataOps == {"xadd", "xgroup_create", "xreadgroup", "xack"}

\* arguments tried: the item appended, the COUNT of a group read, the id
\* acknowledged
Args(k) ==
  IF k = "xadd" THEN { VLMFrameData(0, nops + 1) }
  ELSE IF k = "xreadgroup" THEN { 1, MaxOps }
  ELSE IF k = "xack" THEN 1..(MaxOps - 2)
  ELSE { 0 }

\* thread c returns from its call with result r = [ok, val]; got tells
\* whether a reply arrived
Return(c, r, was, got) ==
  /\ rres' = [rres EXCEPT ![c] =
                [kind |-> op[c].kind, ok |-> r.ok, was |-> was,
                 lost |-> op[c].lost, up |-> net = "up"]]
  /\ reads' = IF op[c].kind = "xreadgroup" /\ got
              THEN Append(reads, [by |-> c, ids |-> r.val, pend |-> op[c].pend])
              ELSE reads
  /\ op' = [op EXCEPT ![c] = NoOp]
  /\ pc' = [pc EXCEPT ![c] = "idle"]

\* if (!ensure_connected()) return ""; / return false; / return {};
Fail(c) ==
  IF op[c].kind = "connect"
  THEN Return(c, [ok |-> FALSE, val |-> << >>], "noconn", FALSE)
  ELSE Return(c, Result(op[c].kind, NullReply), "noconn", FALSE)

\* connect() returned true: connect() itself returns, a command goes on
Proceed(c) ==
  IF op[c].kind = "connect"
  THEN Return(c, [ok |-> TRUE, val |-> << >>], "connected", FALSE)
  ELSE /\ pc' = [pc EXCEPT ![c] = "r_cmd"]
       /\ op' = [op EXCEPT ![c].recon = TRUE]
       /\ UNCHANGED << rres, reads >>

\* a caller enters connect() or a command member
R_Call(c, k, a) ==
  /\ ~aborted
  /\ fault = "none"
  /\ pc[c] = "idle"
  /\ nops < MaxOps
  /\ nops' = nops + 1
  /\ op' = [op EXCEPT ![c] = [kind |-> k, arg |-> a, lost |-> context_ = "err",
                              recon |-> FALSE, reply |-> NullReply,
                              was |-> "none", pend |-> {}]]
  /\ pc' = [pc EXCEPT ![c] = IF k = "connect" THEN "r_connect" ELSE "r_isconn"]
  /\ UNCHANGED << connected_, context_, mutex_, net, auth, stream, grp, rres,
                  xadds, reads, fault >>
  /\ UNCHANGED data_vars
  /\ UNCHANGED queue_vars
  /\ UNCHANGED plugin_vars

\* ensure_connected(): is_connected() takes mutex_, reads and releases it
R_IsConnected(c) ==
  /\ ~aborted
  /\ fault = "none"
  /\ pc[c] = "r_isconn"
  /\ MutexFree(mutex_)
  /\ pc' = [pc EXCEPT ![c] = IF IsConnected(connected_, context_)
                             THEN "r_cmd" ELSE "r_connect"]
  /\ UNCHANGED redis_vars
  /\ UNCHANGED queue_vars
  /\ UNCHANGED plugin_vars

\* connect() up to its return or to the write of AUTH
R_Connect(c) ==
  /\ ~aborted
  /\ fault = "none"
  /\ pc[c] = "r_connect"
  /\ MutexFree(mutex_)
  /\ IF connected_
     THEN /\ Proceed(c)
          /\ UNCHANGED << connected_, context_, mutex_ >>
     ELSE IF RedisConnect(net) = "null"
     THEN /\ context_' = "null"
          /\ Fail(c)
          /\ UNCHANGED << connected_, mutex_ >>
     ELSE IF auth = "none"
     THEN /\ context_' = RedisConnect(net)
          /\ connected_' = TRUE
          /\ Proceed(c)
          /\ UNCHANGED mutex_
     ELSE /\ context_' = RedisConnect(net)
          /\ mutex_' = c
          /\ pc' = [pc EXCEPT ![c] = "r_auth"]
          /\ op' = [op EXCEPT ![c].recon = TRUE]
          /\ UNCHANGED << connected_, rres, reads >>
  /\ UNCHANGED << net, auth, stream, grp, xadds, fault, nops >>
  /\ UNCHANGED data_vars
  /\ UNCHANGED queue_vars
  /\ UNCHANGED plugin_vars

\* the reply to AUTH as redisCommand returns it
AuthReply(a, n) ==
  IF n = "down" \/ a = "silent" THEN "null"
  ELSE IF a = "refused" THEN "error" ELSE "status"

\* connect() from  reply->type == REDIS_REPLY_ERROR  on.  With a NULL reply
\* the read of reply->type is undefined: the process faults, or the test
\* comes out either way.
R_AuthReply(c) ==
  /\ ~aborted
  /\ fault = "none"
  /\ pc[c] = "r_auth"
  /\ \E seen \in IF AuthReply(auth, net) = "null"
                 THEN {"fault", "error", "status"}
                 ELSE { AuthReply(auth, net) } :
       IF seen = "fault"
       THEN /\ fault' = "auth_null_reply"
            /\ UNCHANGED << connected_, context_, mutex_, op, rres, reads, pc >>
       ELSE IF seen = "error"
       THEN /\ context_' = "null"
            /\ mutex_' = NoThread
            /\ Fail(c)
            /\ UNCHANGED << connected_, fault >>
       ELSE /\ connected_' = TRUE
            /\ context_' = IF AuthReply(auth, net) = "null" THEN "err" ELSE context_
            /\ mutex_' = NoThread
            /\ Proceed(c)
            /\ UNCHANGED fault
  /\ UNCHANGED << net, auth, stream, grp, xadds, nops >>
  /\ UNCHANGED data_vars
  /\ UNCHANGED queue_vars
  /\ UNCHANGED plugin_vars

\* a command member from its lock_guard to the write of the command.
\* redisCommand on a null handle is undefined behaviour (hiredis writes
\* through the pointer): the process faults.
R_Send(c) ==
  /\ ~aborted
  /\ fault = "none"
  /\ pc[c] = "r_cmd"
  /\ MutexFree(mutex_)
  /\ IF context_ = "null"
     THEN /\ fault' = "null_handle"
          /\ UNCHANGED << context_, mutex_, stream, grp, op, rres, xadds,
                          reads, pc >>
     ELSE IF Written(context_) /\ net = "up"
     THEN /\ \E refuse \in IF op[c].kind = "xgroup_create"
                           THEN BOOLEAN ELSE {FALSE} :
               LET sv == Serve(op[c], refuse) IN
                 /\ stream' = sv.stream
                 /\ grp' = sv.grp
                 /\ op' = [op EXCEPT ![c].reply = sv.reply,
                                     ![c].was = sv.was,
                                     ![c].pend = grp.pel]
          /\ xadds' = IF op[c].kind = "xadd"
                      THEN Append(xadds, op[c].arg) ELSE xadds
          /\ mutex_' = c
          /\ pc' = [pc EXCEPT ![c] = "r_wait"]
          /\ UNCHANGED << context_, rres, reads, fault >>
     ELSE /\ context_' = ContextAfter(context_, net)
          /\ xadds' = IF op[c].kind = "xadd" /\ Written(context_)
                      THEN Append(xadds, op[c].arg) ELSE xadds
          /\ Return(c, Result(op[c].kind, NullReply), "noreply", FALSE)
          /\ UNCHANGED << mutex_, stream, grp, fault >>
  /\ UNCHANGED << connected_, net, auth, nops >>
  /\ UNCHANGED data_vars
  /\ UNCHANGED queue_vars
  /\ UNCHANGED plugin_vars

\* a command member from the arrival of the reply to its return
R_Recv(c) ==
  /\ ~aborted
  /\ fault = "none"
  /\ pc[c] = "r_wait"
  /\ mutex_' = NoThread
  /\ context_' = ContextAfter(context_, net)
  /\ IF net = "up"
     THEN Return(c, Result(op[c].kind, op[c].reply), op[c].was, TRUE)
     ELSE Return(c, Result(op[c].kind, NullReply), "noreply", FALSE)
  /\ UNCHANGED << connected_, net, auth, stream, grp, xadds, fault, nops >>
  /\ UNCHANGED data_vars
  /\ UNCHANGED queue_vars
  /\ UNCHANGED plugin_vars


\* variant: disconnect() frees the handle and leaves connected_ as it was
R_Disconnect_KeepsFlag(c) ==
  /\ ~aborted
  /\ fault = "none"
  /\ pc[c] = "idle"
  /\ nops < MaxOps
  /\ MutexFree(mutex_)
  /\ nops' = nops + 1
  /\ context_' = "null"
  /\ UNCHANGED << connected_, mutex_, net, auth, stream, grp, op, rres, xadds,
                  reads, fault >>
  /\ UNCHANGED data_vars
  /\ UNCHANGED pc
  /\ UNCHANGED queue_vars
  /\ UNCHANGED plugin_vars

\* void disconnect()
R_Disconnect(c) ==
  /\ ~aborted
  /\ fault = "none"
  /\ pc[c] = "idle"
  /\ nops < MaxOps
  /\ MutexFree(mutex_)
  /\ nops' = nops + 1
  /\ context_' = "null"
  /\ connected_' = FALSE
  /\ UNCHANGED << mutex_, net, auth, stream, grp, op, rres, xadds, reads,
                  fault >>
  /\ UNCHANGED data_vars
  /\ UNCHANGED pc
  /\ UNCHANGED queue_vars
  /\ UNCHANGED plugin_vars

RedisCaller(c) ==
  \/ R_IsConnected(c)
  \/ R_Connect(c)
  \/ R_Send(c)
  \/ R_Recv(c)

\* the element's fields and queue play no part in the client's calls
ElementIdle ==
  /\ ElementInit
  /\ vlm_queue_max_size = 1
  /\ vlm_frame_interval = 1

\* connection handling: a client built with or without a password, whose
\* callers connect, disconnect and append
InitRC == ElementIdle /\ ClientInit

NextRC ==
  \/ \E c \in Callers :
       \/ \E k \in {"xadd", "connect"} : \E a \in Args(k) : R_Call(c, k, a)
       \/ RedisCaller(c)
       \/ R_AuthReply(c)
       \/ R_Disconnect(c)
  \/ (fault = "none" /\ NetChange)

SpecRC == InitRC /\ [][NextRC]_vars

\* stream commands: the client of a stream manager (no password), whose
\* callers append, create the group, read as group consumers and acknowledge
InitRS == ElementIdle /\ \E n \in {"up", "down"} : ManagerInit(n)

NextRS ==
  \/ \E c \in Callers :
       \/ \E k \in DataOps : \E a \in Args(k) : R_Call(c, k, a)
       \/ RedisCaller(c)
  \/ (fault = "none" /\ NetChange)

SpecRS == InitRS /\ [][NextRS]_vars

\* =============================================== the records of the log
\* The record-level view of the client and the server: ids as the server
\* generates and prints them, field lists as they travel, replies in the
\* shape hiredis hands them over.  A call of a sequential caller is one step.

\* ------------------------------------------------------------ std::string
\* A string is a sequence of symbols: a decimal digit, the dash, the NUL
\* character, or a run of other characters kept whole.
Digits == << "0", "1", "2", "3", "4", "5", "6", "7", "8", "9" >>

Dash == "-"

NUL == "NUL"

\* the string made of one run of characters
Str(w) == << w >>

IsDigit(ch) == \E d \in 1..10 : Digits[d] = ch

DigitValue(ch) == (CHOOSE d \in 1..10 : Digits[d] = ch) - 1

\* std::string::find(ch): the first position of ch (from 1), 0 for npos
Find(s, ch) ==
  IF \E i \in 1..Len(s) : s[i] = ch
  THEN CHOOSE i \in 1..Len(s) : s[i] = ch /\ \A j \in 1..(i - 1) : s[j] # ch
  ELSE 0

\* what a const char* argument without a length carries: the characters
\* before the first NUL
CStr(s) == IF Find(s, NUL) = 0 THEN s ELSE SubSeq(s, 1, Find(s, NUL) - 1)

\* std::to_string of an unsigned value, also printf's %d of a count
RECURSIVE To_string(_)
To_string(n) ==
  IF n < 10 THEN << Digits[n + 1] >>
  ELSE To_string(n \div 10) \o << Digits[(n % 10) + 1] >>

RECURSIVE DigitPrefix(_)
DigitPrefix(s) ==
  IF s = << >> THEN << >>
  ELSE IF IsDigit(Head(s)) THEN << Head(s) >> \o DigitPrefix(Tail(s))
  ELSE << >>

RECURSIVE Decimal(_)
Decimal(d) ==
  IF d = << >> THEN 0
  ELSE 10 * Decimal(SubSeq(d, 1, Len(d) - 1)) + DigitValue(d[Len(d)])

\* std::stoull on a string without blanks or sign: the value of the leading
\* digits; std::invalid_argument is thrown when there is none
Stoull(s) ==
  IF DigitPrefix(s) = << >> THEN [thrown |-> TRUE, val |-> 0]
  ELSE [thrown |-> FALSE, val |-> Decimal(DigitPrefix(s))]

\* std::stoi, same domain; std::out_of_range above INT_MAX
Stoi(s) ==
  IF DigitPrefix(s) = << >> THEN [thrown |-> TRUE, val |-> 0]
  ELSE IF Len(DigitPrefix(s)) > 9 THEN [thrown |-> TRUE, val |-> 0]
  ELSE [thrown |-> FALSE, val |-> Decimal(DigitPrefix(s))]

\* StreamMessage::get_field_as<uint32_t>(key): the default T{} for a key
\* that is absent
GetFieldAs(fields, key) ==
  IF key \in DOMAIN fields THEN Stoi(fields[key])
  ELSE [thrown |-> FALSE, val |-> 0]

\* ---------------------------------------------------------------- replies
StringReply(s) == [type |-> "string", val |-> s]

\* an array reply: its elements are replies
ArrayReply(els) == [type |-> "array", element |-> els]

\* an integer reply: str is NULL, the number is in integer
IntegerReply(n) == [type |-> "integer", val |-> << >>, integer |-> n]

NilReply == [type |-> "nil", val |-> << >>]

StatusReply(words) == [type |-> "status", val |-> words]

ErrorReply(words) == [type |-> "error", val |-> words]

\* std::string(r->str, r->len): hiredis sets str and len for the textual
\* types only; the others have str NULL and len 0
StrOf(r) == IF r.type \in {"string", "status", "error"} THEN r.val ELSE << >>

\* ------------------------------------------------------- the log server
\* the largest id the stream has generated (no record is ever deleted)
LastId(str) == IF str = << >> THEN << 0, 0 >> ELSE str[Len(str)].id

\* variant: the clock reading is used as it is
GeneratedId_Clock(last, ms) == << ms, 0 >>

\* XADD <key> *: the id for a record added when the server's clock reads ms;
\* a clock that has not passed the last id's time continues its sequence
GeneratedId(last, ms) ==
  IF ms > last[1] THEN << ms, 0 >> ELSE << last[1], last[2] + 1 >>

IdLess(a, b) == a[1] < b[1] \/ (a[1] = b[1] /\ a[2] < b[2])

IdLeq(a, b) == a = b \/ IdLess(a, b)

\* the id as the server prints it: <ms>-<seq>
FormatId(id) == To_string(id[1]) \o << Dash >> \o To_string(id[2])

\* a complete id <ms>-<seq> read by the server
ParseId(s) ==
  << Stoull(SubSeq(s, 1, Find(s, Dash) - 1)).val,
     Stoull(SubSeq(s, Find(s, Dash) + 1, Len(s))).val >>

\* XRANGE bounds: - and + are the ends of the stream
InRange(id, start, end) ==
  /\ start = << Dash >> \/ IdLeq(ParseId(start), id)
  /\ end = << "+" >> \/ IdLeq(id, ParseId(end))

\* an entry of a range or read reply: [id, [field, value, ...]]
Entry(r) ==
  ArrayReply(<< StringReply(FormatId(r.id)),
                ArrayReply([i \in 1..Len(r.fields) |-> StringReply(r.fields[i])]) >>)

\* XADD <key> * field value ...: args is << "*", field, value, ... >>
LogXadd(sv, key, args, ms) ==
  IF Len(args) < 3 \/ Len(args) % 2 = 0
  THEN [db |-> sv.db, groups |-> sv.groups,
        reply |-> ErrorReply(<< "ERR", "wrong", "number", "of", "arguments" >>)]
  ELSE LET id == GeneratedId(LastId(sv.db[key]), ms) IN
       [db |-> [sv.db EXCEPT ![key] = Append(@, [id |-> id, fields |-> Tail(args)])],
        groups |-> sv.groups,
        reply |-> StringReply(FormatId(id))]

\* XRANGE <key> <start> <end> [COUNT <n>]
LogXrange(sv, key, args) ==
  LET hits == SelectSeq(sv.db[key], LAMBDA r : InRange(r.id, args[1], args[2]))
      n    == IF Len(args) >= 4 THEN Min(Stoull(args[4]).val, Len(hits))
              ELSE Len(hits)
  IN  [db |-> sv.db, groups |-> sv.groups,
       reply |-> ArrayReply([i \in 1..n |-> Entry(hits[i])])]

\* XGROUP CREATE <key> <group> <start> MKSTREAM
LogGroupCreate(sv, key, args) ==
  IF << key, args[1][1] >> \in sv.groups
  THEN [db |-> sv.db, groups |-> sv.groups,
        reply |-> ErrorReply(<< "BUSYGROUP", "Consumer", "Group", "name",
                                "already", "exists" >>)]
  ELSE [db |-> sv.db, groups |-> sv.groups \cup { << key, args[1][1] >> },
        reply |-> StatusReply(<< "OK" >>)]

\* XACK <key> <group> <id>: the number of pending records acknowledged. The
\* clients of this view read by range only, so no group has a pending record
LogXack(sv, key, args) ==
  [db |-> sv.db, groups |-> sv.groups, reply |-> IntegerReply(0)]

\* the server's answer to command c when its clock reads ms
LogServe(sv, c, ms) ==
  IF c.cmd = "XADD" THEN LogXadd(sv, c.key, c.args, ms)
  ELSE IF c.cmd = "XRANGE" THEN LogXrange(sv, c.key, c.args)
  ELSE IF c.cmd = "XACK" THEN LogXack(sv, c.key, c.args)
  ELSE LogGroupCreate(sv, c.key, c.args)

\* ------------------------------------------- RedisClient, record level
\* The client and the server it talks to, as one value:
\*   [connected, context, db, groups, wire, fault]
\* ensure_connected() and the command's exchange, for a caller that is alone
\* on the client: the command is written on an open handle, answered when the
\* server is reachable with sv = [db, groups, reply], and the reply read
Exchange(cl, c, sv) ==
  LET e == EnsureConnected(cl.connected, cl.context, net) IN
  IF ~e.ok
  THEN [state |-> [cl EXCEPT !.connected = e.connected, !.context = e.context],
        reply |-> NullReply]
  ELSE IF e.context = "null"
  THEN [state |-> [cl EXCEPT !.fault = "null_handle"], reply |-> NullReply]
  ELSE IF Written(e.context) /\ net = "up"
  THEN [state |-> [cl EXCEPT !.connected = e.connected, !.context = e.context,
                             !.db = sv.db, !.groups = sv.groups,
                             !.wire = Append(cl.wire, c)],
        reply |-> sv.reply]
  ELSE [state |-> [cl EXCEPT !.connected = e.connected,
                             !.context = ContextAfter(e.context, net),
                             !.wire = IF Written(e.context)
                                      THEN Append(cl.wire, c) ELSE cl.wire],
        reply |-> NullReply]

\* the exchange with the log server, whose clock reads ms
Command(cl, c, ms) == Exchange(cl, c, LogServe(cl, c, ms))

\* the argument list built from the field map: each key and value is passed
\* as arg.c_str() with no length (the map's order is not modelled)
RECURSIVE XaddArgs(_, _)
XaddArgs(fields, ks) ==
  IF ks = {} THEN << >>
  ELSE LET k == CHOOSE x \in ks : TRUE IN
       << CStr(k), CStr(fields[k]) >> \o XaddArgs(fields, ks \ {k})

\* xadd: message_id is the reply's string, empty for any other reply
MessageId(reply) == IF reply.type = "string" THEN reply.val ELSE << >>

Xadd(cl, key, fields, ms) ==
  LET r == Command(cl, [cmd |-> "XADD", key |-> key,
                        args |-> << Str("*") >> \o XaddArgs(fields, DOMAIN fields)],
                   ms)
  IN  [state |-> r.state, val |-> MessageId(r.reply), thrown |-> FALSE]

\* the pairs of a field list: positions i, i+1 with i + 1 < elements
FieldPairs(els) == { i \in 1..Len(els) : i % 2 = 1 /\ i + 1 <= Len(els) }

\* message.fields[key] = value for each pair in turn: the last one wins
FieldMap(els) ==
  [k \in { StrOf(els[i]) : i \in FieldPairs(els) } |->
     StrOf(els[(CHOOSE i \in FieldPairs(els) :
                  /\ StrOf(els[i]) = k
                  /\ \A j \in FieldPairs(els) : StrOf(els[j]) = k => j <= i) + 1])]

EmptyMessage == [id |-> << >>, timestamp |-> 0, fields |-> << >>]

\* parse_stream_message: the message, or thrown when std::stoull throws on
\* the text before the id's dash
ParseStreamMessage(m) ==
  IF m.type # "array" \/ Len(m.element) < 2
  THEN [msg |-> EmptyMessage, thrown |-> FALSE]
  ELSE LET id   == IF m.element[1].type = "string" THEN m.element[1].val ELSE << >>
           dash == Find(id, Dash)
           ts   == IF dash # 0 THEN Stoull(SubSeq(id, 1, dash - 1))
                   ELSE [thrown |-> FALSE, val |-> 0]
       IN  IF ts.thrown THEN [msg |-> EmptyMessage, thrown |-> TRUE]
           ELSE [msg |-> [id |-> id, timestamp |-> ts.val,
                          fields |-> IF m.element[2].type = "array"
                                     THEN FieldMap(m.element[2].element) ELSE << >>],
                 thrown |-> FALSE]

\* the loop over the entries: a message is kept when its id is not empty
RECURSIVE ParseEntries(_)
ParseEntries(els) ==
  IF els = << >> THEN [msgs |-> << >>, thrown |-> FALSE]
  ELSE LET m == ParseStreamMessage(Head(els)) IN
       IF m.thrown THEN [msgs |-> << >>, thrown |-> TRUE]
       ELSE LET rest == ParseEntries(Tail(els)) IN
            IF rest.thrown THEN rest
            ELSE [msgs |-> (IF m.msg.id # << >> THEN << m.msg >> ELSE << >>)
                             \o rest.msgs,
                  thrown |-> FALSE]

\* parse_xrange_reply
ParseXRangeReply(reply) ==
  IF reply.type # "array" THEN [msgs |-> << >>, thrown |-> FALSE]
  ELSE ParseEntries(reply.element)

\* parse_xread_reply on the reply as received: [[name, [entry, ...]], ...]
RECURSIVE ParseStreams(_)
ParseStreams(els) ==
  IF els = << >> THEN [msgs |-> << >>, thrown |-> FALSE]
  ELSE LET sr   == Head(els)
           here == IF sr.type = "array" /\ Len(sr.element) >= 2
                      /\ sr.element[2].type = "array"
                   THEN ParseEntries(sr.element[2].element)
                   ELSE [msgs |-> << >>, thrown |-> FALSE]
       IN  IF here.thrown THEN here
           ELSE LET rest == ParseStreams(Tail(els)) IN
                IF rest.thrown THEN rest
                ELSE [msgs |-> here.msgs \o rest.msgs, thrown |-> FALSE]

ParseXReadArray(reply) ==
  IF reply.type # "array" THEN [msgs |-> << >>, thrown |-> FALSE]
  ELSE ParseStreams(reply.element)

\* xinfo_stream: the map built from an array reply
XinfoStream(reply) ==
  IF reply.type = "array" THEN FieldMap(reply.element) ELSE << >>

\* xrange
Xrange(cl, key, start, end, count) ==
  LET r == Command(cl, [cmd |-> "XRANGE", key |-> key,
                        args |-> << CStr(start), CStr(end) >> \o
                                 (IF count > 0
                                  THEN << Str("COUNT"), To_string(count) >>
                                  ELSE << >>)],
                   0)
      p == ParseXRangeReply(r.reply)
  IN  [state |-> r.state, val |-> p.msgs, thrown |-> p.thrown]

\* xgroup_create
XgroupCreate(cl, key, group, start_id) ==
  LET r == Command(cl, [cmd |-> "XGROUP CREATE", key |-> key,
                        args |-> << Str(group), start_id, Str("MKSTREAM") >>],
                   0)
  IN  [state |-> r.state, val |-> XGroupCreateSuccess(r.reply), thrown |-> FALSE]

\* xack
Xack(cl, key, group, message_id) ==
  LET r == Command(cl, [cmd |-> "XACK", key |-> key,
                        args |-> << Str(group), CStr(message_id) >>],
                   0)
  IN  [state |-> r.state, val |-> XAckSuccess(r.reply), thrown |-> FALSE]

\* --------------------------------------------------- VLMRedisStreamManager
\* variant: the record's type is "result"
VlmResultFields_Result(frame_number, source_id, vlm_response, model_name, now) ==
  (Str("frame_number") :> To_string(frame_number))
    @@ (Str("source_id") :> To_string(source_id))
    @@ (Str("vlm_response") :> vlm_response)
    @@ (Str("model_name") :> model_name)
    @@ (Str("timestamp") :> To_string(now))
    @@ (Str("type") :> Str("result"))

\* the field map add_vlm_result builds; now is get_current_timestamp()
VlmResultFields(frame_number, source_id, vlm_response, model_name, now) ==
  (Str("frame_number") :> To_string(frame_number))
    @@ (Str("source_id") :> To_string(source_id))
    @@ (Str("vlm_response") :> vlm_response)
    @@ (Str("model_name") :> model_name)
    @@ (Str("timestamp") :> To_string(now))
    @@ (Str("type") :> Str("vlm_result"))

\* the field map add_frame_metadata builds
FrameMetadataFields(frame_number, source_id, width, height, format, now) ==
  (Str("frame_number") :> To_string(frame_number))
    @@ (Str("source_id") :> To_string(source_id))
    @@ (Str("width") :> To_string(width))
    @@ (Str("height") :> To_string(height))
    @@ (Str("format") :> format)
    @@ (Str("timestamp") :> To_string(now))
    @@ (Str("type") :> Str("frame_metadata"))

\* filtered.size() >= count, an unsigned comparison: a negative count is a
\* huge unsigned value
SizeReaches(size, count) == count >= 0 /\ size >= count

\* the filter loop of get_vlm_results_by_source
RECURSIVE FilterBySource(_, _, _, _)
FilterBySource(msgs, source_id, count, acc) ==
  IF msgs = << >> THEN [val |-> acc, thrown |-> FALSE]
  ELSE LET f == GetFieldAs(Head(msgs).fields, Str("source_id")) IN
       IF f.thrown THEN [val |-> << >>, thrown |-> TRUE]
       ELSE IF f.val = source_id
       THEN IF SizeReaches(Len(acc) + 1, count)
            THEN [val |-> Append(acc, Head(msgs)), thrown |-> FALSE]
            ELSE FilterBySource(Tail(msgs), source_id, count,
                                Append(acc, Head(msgs)))
       ELSE FilterBySource(Tail(msgs), source_id, count, acc)

\* get_vlm_results_by_source(source_id, count) on the stream named key
GetVlmResultsBySource(cl, key, source_id, count) ==
  LET r == Xrange(cl, key, << Dash >>, << "+" >>, count * 2)
      f == FilterBySource(r.val, source_id, count, << >>)
  IN  [state |-> r.state,
       val |-> IF r.thrown THEN << >> ELSE f.val,
       thrown |-> r.thrown \/ f.thrown]

\* variant: the group is created on the results stream only
ConfigureStreams_ResultsOnly(cl, vlm_stream, frame_stream, consumer_group) ==
  LET r1 == XgroupCreate(cl, vlm_stream, consumer_group, Str("0"))
  IN  [state |-> r1.state, val |-> << r1.val, FALSE >>, thrown |-> FALSE]

\* configure_streams: the two xgroup_create calls under the new names
ConfigureStreams(cl, vlm_stream, frame_stream, consumer_group) ==
  LET r1 == XgroupCreate(cl, vlm_stream, consumer_group, Str("0"))
      r2 == XgroupCreate(r1.state, frame_stream, consumer_group, Str("0"))
  IN  [state |-> r2.state, val |-> << r1.val, r2.val >>, thrown |-> FALSE]

\* ------------------------------------------- calls of a sequential caller
\* the client and its server as the current state has them
Client ==
  [connected |-> connected_, context |-> context_, db |-> db,
   groups |-> groups, wire |-> wire, fault |-> fault]

\* a call may start: the process is alive
CallStarts ==
  /\ ~aborted
  /\ fault = "none"
  /\ nops < MaxOps

\* a call ends in state st with outcome o
CallEnds(st, o) ==
  /\ connected_' = st.connected
  /\ context_' = st.context
  /\ db' = st.db
  /\ groups' = st.groups
  /\ wire' = st.wire
  /\ fault' = st.fault
  /\ out' = o
  /\ nops' = nops + 1
  /\ UNCHANGED << mutex_, net, auth, stream, grp, op, rres, xadds, reads >>
  /\ UNCHANGED queue_vars
  /\ UNCHANGED plugin_vars
  /\ UNCHANGED pc

\* redis_client.xadd(key, fields) while the server's clock reads ms
L_Xadd(key, fields, ms) ==
  /\ CallStarts
  /\ LET r == Xadd(Client, key, fields, ms) IN
       CallEnds(r.state, [call |-> "xadd",
                          arg |-> [key |-> key, fields |-> fields],
                          val |-> r.val, thrown |-> r.thrown])
  /\ UNCHANGED << vlm_stream_, frame_stream_, consumer_group_ >>

\* redis_client.xrange(key, "-", "+", count)
L_Xrange(key, count) ==
  /\ CallStarts
  /\ LET r == Xrange(Client, key, << Dash >>, << "+" >>, count) IN
       CallEnds(r.state, [call |-> "xrange",
                          arg |-> [key |-> key, count |-> count],
                          val |-> r.val, thrown |-> r.thrown])
  /\ UNCHANGED << vlm_stream_, frame_stream_, consumer_group_ >>

\* field maps appended by the client's callers: one pair, a value with a NUL
\* inside, two pairs, no pair
FieldMaps ==
  { Str("a") :> Str("1"),
    Str("a") :> << "1", NUL, "x" >>,
    (Str("a") :> Str("1")) @@ (Str("b") :> Str("2")),
    << >> }

\* limits passed to xrange: the default -1, and COUNT 1 and 2
Limits == {-1, 1, 2}

\* a bare client without password whose caller appends to and scans one key
InitL == ElementIdle /\ ClientInit /\ auth = "none"

NextL ==
  \/ \E fields \in FieldMaps : \E ms \in 1..MaxClock : L_Xadd("s", fields, ms)
  \/ \E count \in Limits : L_Xrange("s", count)
  \/ (fault = "none" /\ NetChange)

SpecL == InitL /\ [][NextL]_vars

\* ------------------------------------------------ calls on the manager
\* VLMRedisStreamManager("localhost", 6379) with the server in condition n,
\* at record level: connect(), and when it succeeded the two xgroup_create
ManagerDataInit(n) ==
  /\ net = n
  /\ auth = "none"
  /\ grp = NoGroup
  /\ RedisQuiet
  /\ DefaultNames
  /\ out = NoCall
  /\ LET fresh == [connected |-> RedisConnect(n) = "open",
                   context |-> RedisConnect(n),
                   db |-> [k \in Keys |-> << >>], groups |-> {},
                   wire |-> << >>, fault |-> "none"]
         st == IF fresh.connected
               THEN ConfigureStreams(fresh, "vlm:results:stream",
                                     "vlm:frames:stream", "vlm_processors").state
               ELSE fresh
     IN  /\ connected_ = st.connected
         /\ context_ = st.context
         /\ db = st.db
         /\ groups = st.groups
         /\ wire = st.wire

\* add_vlm_result(frame_number, source_id, vlm_response, model_name) called
\* when the manager's clock reads now and the server's reads ms
M_AddVlmResult(frame_number, source_id, vlm_response, model_name, now, ms) ==
  /\ CallStarts
  /\ LET r == Xadd(Client, vlm_stream_,
                   VlmResultFields(frame_number, source_id, vlm_response,
                                   model_name, now), ms) IN
       CallEnds(r.state, [call |-> "add_vlm_result",
                          arg |-> [frame_number |-> frame_number,
                                   source_id |-> source_id,
                                   vlm_response |-> vlm_response,
                                   model_name |-> model_name, now |-> now],
                          val |-> r.val, thrown |-> r.thrown])
  /\ UNCHANGED << vlm_stream_, frame_stream_, consumer_group_ >>

\* add_frame_metadata(frame_number, source_id, width, height, format)
M_AddFrameMetadata(frame_number, source_id, width, height, format, now, ms) ==
  /\ CallStarts
  /\ LET r == Xadd(Client, frame_stream_,
                   FrameMetadataFields(frame_number, source_id, width, height,
                                       format, now), ms) IN
       CallEnds(r.state, [call |-> "add_frame_metadata",
                          arg |-> [frame_number |-> frame_number,
                                   source_id |-> source_id, width |-> width,
                                   height |-> height, format |-> format,
                                   now |-> now],
                          val |-> r.val, thrown |-> r.thrown])
  /\ UNCHANGED << vlm_stream_, frame_stream_, consumer_group_ >>

\* get_vlm_results_by_source(source_id, count)
M_GetVlmResultsBySource(source_id, count) ==
  /\ CallStarts
  /\ LET r == GetVlmResultsBySource(Client, vlm_stream_, source_id, count) IN
       CallEnds(r.state, [call |-> "get_vlm_results_by_source",
                          arg |-> [source_id |-> source_id, count |-> count],
                          val |-> r.val, thrown |-> r.thrown])
  /\ UNCHANGED << vlm_stream_, frame_stream_, consumer_group_ >>

\* ack_message(stream, message_id); stream is stream_key here
M_AckMessage(stream_key, message_id) ==
  /\ CallStarts
  /\ LET r == Xack(Client, stream_key, consumer_group_, message_id) IN
       CallEnds(r.state, [call |-> "ack_message",
                          arg |-> [stream |-> stream_key,
                                   message_id |-> message_id],
                          val |-> r.val, thrown |-> r.thrown])
  /\ UNCHANGED << vlm_stream_, frame_stream_, consumer_group_ >>

\* configure_streams(vlm_stream, frame_stream, consumer_group)
M_ConfigureStreams(vlm_stream, frame_stream, consumer_group) ==
  /\ CallStarts
  /\ vlm_stream_' = vlm_stream
  /\ frame_stream_' = frame_stream
  /\ consumer_group_' = consumer_group
  /\ LET r == ConfigureStreams(Client, vlm_stream, frame_stream,
                               consumer_group) IN
       CallEnds(r.state, [call |-> "configure_streams",
                          arg |-> [vlm_stream |-> vlm_stream,
                                   frame_stream |-> frame_stream,
                                   consumer_group |-> consumer_group],
                          val |-> r.val, thrown |-> r.thrown])

\* another client of the same server appends a record to key (XADD through
\* its own connection) while the server's clock reads ms
OtherXadd(key, fields, ms) ==
  /\ CallStarts
  /\ net = "up"
  /\ db' = LogXadd(Client, key, << Str("*") >> \o XaddArgs(fields, DOMAIN fields),
                   ms).db
  /\ nops' = nops + 1
  /\ UNCHANGED << connected_, context_, mutex_, net, auth, stream, grp, op,
                  rres, xadds, reads, fault, vlm_stream_, frame_stream_,
                  consumer_group_, groups, wire, out >>
  /\ UNCHANGED queue_vars
  /\ UNCHANGED plugin_vars
  /\ UNCHANGED pc

\* arguments of add_vlm_result tried: two sources, a response with a NUL
\* inside, two readings of the manager's clock
ResultArgs ==
  { [source_id |-> 0, vlm_response |-> Str("r"), now |-> 1],
    [source_id |-> 1, vlm_response |-> Str("r"), now |-> 12],
    [source_id |-> 0, vlm_response |-> << "r", NUL, "x" >>, now |-> 12] }

\* source id and count given to get_vlm_results_by_source
SourceQueries == { << 0, 1 >>, << 1, 1 >>, << 0, 0 >>, << 1, 2 >> }

\* names given to configure_streams: new names, and the names in use
Reconfigurations ==
  { << "s", "vlm:frames:stream", "g" >>,
    << "vlm:results:stream", "vlm:frames:stream", "vlm_processors" >> }

InitM == ElementIdle /\ \E n \in {"up", "down"} : ManagerDataInit(n)

NextM ==
  \/ \E a \in ResultArgs : \E ms \in 1..MaxClock :
       M_AddVlmResult(nops + 1, a.source_id, a.vlm_response,
                      Str("deepstream_vlm_v1"), a.now, ms)
  \/ \E ms \in 1..MaxClock :
       M_AddFrameMetadata(nops + 1, 0, 1920, 1080, Str("NV12"), 12, ms)
  \/ \E q \in SourceQueries : M_GetVlmResultsBySource(q[1], q[2])
  \/ \E n \in Reconfigurations : M_ConfigureStreams(n[1], n[2], n[3])
  \/ M_AckMessage(vlm_stream_, << "1", Dash, "0" >>)
  \/ \E ms \in 1..MaxClock : OtherXadd(vlm_stream_, Str("a") :> Str("1"), ms)
  \/ (fault = "none" /\ NetChange)

SpecM == InitM /\ [][NextM]_vars

\* ------------------------------------------ replies of any shape received
\* ids an entry can carry: well formed, text before the dash that is not a
\* number, nothing before the dash, no dash, empty, and not a string
ReplyIds ==
  { StringReply(<< "1", Dash, "0" >>), StringReply(<< "x", Dash, "0" >>),
    StringReply(<< Dash, "1" >>), StringReply(<< "1", "0" >>),
    StringReply(<< >>), IntegerReply(1), NilReply }

\* field lists: one pair, odd length, empty, elements that are not strings,
\* not an array
ReplyFields ==
  { ArrayReply(<< StringReply(Str("a")), StringReply(Str("1")) >>),
    ArrayReply(<< StringReply(Str("a")), StringReply(Str("1")),
                  StringReply(Str("b")) >>),
    ArrayReply(<< >>),
    ArrayReply(<< IntegerReply(1), NilReply >>),
    NilReply }

\* entries: [id, fields], and elements that are not two-element arrays
ReplyEntries ==
  { ArrayReply(<< i, f >>) : i \in ReplyIds, f \in ReplyFields }
    \cup { ArrayReply(<< StringReply(<< "1", Dash, "0" >>) >>),
           ArrayReply(<< >>), StringReply(<< "1", Dash, "0" >>), NilReply }

GoodEntry ==
  ArrayReply(<< StringReply(<< "1", Dash, "0" >>),
                ArrayReply(<< StringReply(Str("a")), StringReply(Str("1")) >>) >>)

\* what the client can get back for XRANGE: no reply, a reply that is not an
\* array, arrays of one entry, and of a good entry followed by any entry
RangeReplies ==
  { NullReply, NilReply, StringReply(Str("a")), IntegerReply(1),
    ErrorReply(<< "ERR" >>), ArrayReply(<< >>) }
    \cup { ArrayReply(<< e >>) : e \in ReplyEntries }
    \cup { ArrayReply(<< GoodEntry, e >>) : e \in ReplyEntries }

\* what it can get back for XREAD and XREADGROUP: the same entries under one
\* stream name, and stream elements that are not [name, entries]
ReadReplies ==
  { NullReply, NilReply, StringReply(Str("a")), ArrayReply(<< >>),
    ArrayReply(<< StringReply(Str("s")) >>),
    ArrayReply(<< ArrayReply(<< StringReply(Str("s")) >>) >>),
    ArrayReply(<< ArrayReply(<< StringReply(Str("s")), NilReply >>) >>) }
    \cup { ArrayReply(<< ArrayReply(<< StringReply(Str("s")), r >>) >>) :
             r \in { x \in RangeReplies : x.type = "array" } }

\* what it can get back for XINFO STREAM: name/value lists of any shape
InfoReplies ==
  { NullReply, NilReply, ErrorReply(<< "ERR" >>) } \cup ReplyFields
    \cup { ArrayReply(<< StringReply(Str("length")), IntegerReply(1),
                         StringReply(Str("groups")) >>),
           ArrayReply(<< StringReply(Str("first-entry")), GoodEntry >>) }

\* the server's answer to a read: the records stay as they are
Reads(reply) == [db |-> db, groups |-> groups, reply |-> reply]

\* redis_client.xrange(key) answered with reply
P_Xrange(key, reply) ==
  /\ CallStarts
  /\ LET r == Exchange(Client, [cmd |-> "XRANGE", key |-> key,
                                args |-> << CStr(<< Dash >>), CStr(<< "+" >>) >>],
                       Reads(reply))
         p == ParseXRangeReply(r.reply)
     IN  CallEnds(r.state, [call |-> "xrange",
                            arg |-> [key |-> key, reply |-> reply],
                            val |-> p.msgs, thrown |-> p.thrown])
  /\ UNCHANGED << vlm_stream_, frame_stream_, consumer_group_ >>

\* redis_client.xread(key) answered with reply
P_Xread(key, reply) ==
  /\ CallStarts
  /\ LET r == Exchange(Client, [cmd |-> "XREAD", key |-> key,
                                args |-> << Str("COUNT"), To_string(10),
                                            Str("STREAMS"), CStr(Str("0")) >>],
                       Reads(reply))
         p == ParseXReadArray(r.reply)
     IN  CallEnds(r.state, [call |-> "xread",
                            arg |-> [key |-> key, reply |-> reply],
                            val |-> p.msgs, thrown |-> p.thrown])
  /\ UNCHANGED << vlm_stream_, frame_stream_, consumer_group_ >>

\* redis_client.xreadgroup(group, consumer, key) answered with reply
P_Xreadgroup(group, consumer, key, reply) ==
  /\ CallStarts
  /\ LET r == Exchange(Client, [cmd |-> "XREADGROUP", key |-> key,
                                args |-> << Str("GROUP"), Str(group),
                                            Str(consumer), Str("COUNT"),
                                            To_string(1), Str("STREAMS"),
                                            Str(">") >>],
                       Reads(reply))
         p == ParseXReadArray(r.reply)
     IN  CallEnds(r.state, [call |-> "xreadgroup",
                            arg |-> [key |-> key, reply |-> reply],
                            val |-> p.msgs, thrown |-> p.thrown])
  /\ UNCHANGED << vlm_stream_, frame_stream_, consumer_group_ >>

\* redis_client.xinfo_stream(key) answered with reply
P_XinfoStream(key, reply) ==
  /\ CallStarts
  /\ LET r == Exchange(Client, [cmd |-> "XINFO STREAM", key |-> key,
                                args |-> << >>],
                       Reads(reply))
     IN  CallEnds(r.state, [call |-> "xinfo_stream",
                            arg |-> [key |-> key, reply |-> reply],
                            val |-> XinfoStream(r.reply), thrown |-> FALSE])
  /\ UNCHANGED << vlm_stream_, frame_stream_, consumer_group_ >>

\* a bare client whose reads are answered with replies of every shape
InitP == ElementIdle /\ ClientInit /\ auth = "none"

NextP ==
  \/ \E reply \in RangeReplies : P_Xrange("s", reply)
  \/ \E reply \in ReadReplies : P_Xread("s", reply)
  \/ \E reply \in ReadReplies : P_Xreadgroup("g", "c", "s", reply)
  \/ \E reply \in InfoReplies : P_XinfoStream("s", reply)
  \/ (fault = "none" /\ NetChange)

SpecP == InitP /\ [][NextP]_vars

TypeOK ==
  /\ vlm_enabled \in BOOLEAN
  /\ vlm_thread_running \in BOOLEAN
  /\ is_terminated_ \in BOOLEAN
  /\ m_ \in Threads \cup {NoThread}
  /\ vlm_frame_counter \in 0..MaxBatches
  /\ frame_num \in 0..MaxBatches
  /\ connected_ \in BOOLEAN
  /\ context_ \in {"null", "open", "err"}
  /\ mutex_ \in Callers \cup {NoThread}
  /\ net \in {"up", "down"}
  /\ auth \in {"none", "ok", "refused", "silent"}
  /\ fault \in {"none", "auth_null_reply", "null_handle"}
  /\ nops \in 0..MaxOps
  /\ grp.last \in 0..Len(stream)
  /\ grp.pel \subseteq 1..grp.last
  /\ vlm_stream_ \in Keys
  /\ frame_stream_ \in Keys
  /\ consumer_group_ \in GroupNames
  /\ groups \subseteq Keys \X GroupNames
  /\ DOMAIN db = Keys

\* ================================================================== claims
\* the step in which thread t returns from std::shared_ptr<T> wait_and_pop()
WapReturns(t) == pc[t] = "wap_check" /\ pc'[t] # "wap_check"

\* the batch recorded at hist[i] has been processed to the end (one
\* streaming thread)
Completed(i) == i < Len(hist) \/ pc["p1"] = "idle"

\* the SampledEvents a batch yields when it is admitted
EventsOf(h) == [i \in 1..Len(h.frames) |-> VLMFrameData(h.frames[i], h.frame_number)]

EnabledBatches == { i \in 1..Len(hist) : hist[i].enabled }

\* C1: with one producer context and a fixed capacity, the queue never holds
\* more than vlm_queue_max_size items, however the worker's pops interleave
\* with the admission sequence.
C1_CapacitySingleProducer == Len(data_queue_) <= vlm_queue_max_size

C1_Witness ==
  /\ Len(data_queue_) = vlm_queue_max_size
  /\ evicted # << >>
  /\ popped # << >>
  /\ pc["p1"] = "idle"

\* C2: with two producer contexts running the admission sequence on the same
\* queue, the number of queued items never exceeds the capacity.
C2_CapacityMultiProducer == ~ (Size(data_queue_) > vlm_queue_max_size)

\* C3: while no consumer has taken anything, after n admissions the queue
\* holds exactly the last min(n, capacity) pushed items in push order.
C3_EvictionOrder ==
  (popped = << >> /\ pc["p1"] # "p_push")
    => data_queue_ = LastN(pushed, Min(Len(pushed), vlm_queue_max_size))

C3_Witness ==
  /\ popped = << >>
  /\ pc["p1"] = "idle"
  /\ Len(pushed) = vlm_queue_max_size + 1
  /\ data_queue_ = Tail(pushed)

\* C4: the items received by the consumer are a subsequence of the pushed
\* items in push order, and a prefix of them as long as nothing was evicted
\* and the queue is not terminated.
C4_FifoPreservation ==
  /\ IsSubseq(popped, pushed)
  /\ (evicted = << >> /\ ~is_terminated_) => IsPrefix(popped, pushed)

C4_Witness ==
  /\ Len(popped) >= 2
  /\ evicted = << >>
  /\ ~is_terminated_

\* C5 as stated: whenever wait_and_pop() returns none the queue is empty, and
\* whenever it returns while the queue holds an item it returns the front item.
C5_NoneOnlyWhenEmpty ==
  [][\A t \in Threads : WapReturns(t) =>
        /\ res'[t] = << >> => data_queue_ = << >>
        /\ data_queue_ # << >> => res'[t] = << Head(data_queue_) >>]_vars

\* C5 amended: wait_and_pop() returns none exactly when it finds
\* is_terminated_ set after its wait, whatever the queue holds, and then
\* leaves the queue as it is; otherwise it removes and returns the front item.
C5_NoneIffTerminated ==
  [][\A t \in Threads : WapReturns(t) =>
        /\ res'[t] = << >> <=> is_terminated_
        /\ is_terminated_ => data_queue_' = data_queue_
        /\ ~is_terminated_ => /\ data_queue_ # << >>
                              /\ res'[t] = << Head(data_queue_) >>
                              /\ data_queue_' = Tail(data_queue_)]_vars

C5_Witness ==
  /\ pc[Worker] = "w_ret"
  /\ res[Worker] = << >>
  /\ data_queue_ # << >>

\* C6: no wakeup is lost: once terminate() has returned, the worker is not
\* parked on the condition variable inside wait_and_pop().
C6_TerminateWakesWorker == termDone => Worker \notin Waiters

\* C7: a wait_and_pop call (either overload) that begins after terminate()
\* has returned never blocks.
C7_NoBlockAfterTerminate ==
  \A t \in Threads :
    late[t] => pc[t] \notin {"wap_block", "wap_waiting", "wapv_block", "wapv_waiting"}

\* C8: is_terminated_ starts false, terminate() sets it, no step of any
\* operation clears it, and a terminate() on an already terminated queue
\* leaves the items and the flag as they were.
C8_TerminateOneWay ==
  /\ ~is_terminated_
  /\ [][/\ is_terminated_ => is_terminated_'
        /\ \A t \in Threads :
             (pc[t] = "term_set" /\ pc'[t] = "term_notify") => is_terminated_'
        /\ \A t \in Threads :
             (is_terminated_ /\ pc[t] \in {"term_set", "term_notify"}
                /\ pc'[t] # pc[t])
               => (data_queue_' = data_queue_ /\ is_terminated_')]_vars

C8_Witness ==
  /\ termDone
  /\ is_terminated_
  /\ data_queue_ # << >>
  /\ \E c \in Callers : pc[c] = "term_notify"

\* the rate limiter's test over the counter values 1..60, with the default
\* interval and with interval 1
DefaultCadence ==
  /\ { c \in 1..60 : Admit(c, DefaultFrameInterval) } = {30, 60}
  /\ \A c \in 1..60 : Admit(c, 1)

\* C9: the k-th batch seen while sampling is enabled is tested with counter
\* value k, and a finished batch has produced SampledEvents iff that value is
\* a multiple of the interval; interval 30 admits exactly 30 and 60 among
\* 1..60 and interval 1 admits everything.
C9_SamplingCadence ==
  /\ \A i \in EnabledBatches :
       /\ hist[i].counter = Cardinality({ j \in EnabledBatches : j <= i })
       /\ Completed(i) =>
            (SelectFrame(pushed, hist[i].frame_number) # << >>
               <=> hist[i].counter % vlm_frame_interval = 0)
  /\ DefaultCadence

C9_Witness ==
  /\ vlm_frame_interval = 2
  /\ Len(hist) = 2
  /\ \A i \in 1..2 : hist[i].enabled
  /\ pc["p1"] = "idle"
  /\ SelectFrame(pushed, 1) = << >>
  /\ SelectFrame(pushed, 2) # << >>

\* C10: the counter equals the number of batches seen while sampling was
\* enabled, whatever their size; a finished admitted batch has pushed one
\* SampledEvent per frame in batch order, a batch that is not admitted has
\* pushed none, and a batch in progress has pushed a prefix of its events.
C10_SharedBatchCounter ==
  /\ vlm_frame_counter = Cardinality(EnabledBatches)
  /\ \A i \in 1..Len(hist) :
       LET h == hist[i]
           got == SelectFrame(pushed, h.frame_number)
       IN  IF h.enabled /\ h.counter % vlm_frame_interval = 0
           THEN IF Completed(i) THEN got = EventsOf(h)
                ELSE IsPrefix(got, EventsOf(h))
           ELSE got = << >>

C10_Witness ==
  /\ pc["p1"] = "idle"
  /\ \E i \in 1..Len(hist) : ~hist[i].enabled
  /\ \E i \in 1..Len(hist) :
       /\ hist[i].frames = << 1, 0 >>
       /\ SelectFrame(pushed, hist[i].frame_number) = EventsOf(hist[i])

\* the worker holds no dequeued item: it is at the top of its loop or inside
\* wait_and_pop()
WorkerBetweenItems ==
  pc[Worker] \in {"w_loop", "wap_lock", "wap_waiting", "wap_check"}

\* the items of the records stored in the results stream
StoredItems == { stream[j].item : j \in 1..Len(stream) }

\* the app thread is outside gst_dsexample_stop after having called it or
\* before the first start
StopReturned == pc[App] = "ready"

WorkerExited == pc[Worker] \in {"w_off", "w_done"}

\* C11 as stated: whenever the worker holds no dequeued item, the append
\* requests written for the results stream are exactly the dequeued items,
\* in dequeue order.
C11_AppendsAreDequeues == WorkerBetweenItems => xadds = popped

\* C11 amended: the items handed to publish are the dequeued items in dequeue
\* order, all of them while the worker is between items of a queue that is
\* not terminated and all but at most the last one otherwise; the append requests are written one per step and
\* carry a subsequence of the items handed over, in the same order.
C11_AppendsInDequeueOrder ==
  /\ [](/\ IsPrefix(sent, popped)
        /\ Len(popped) - Len(sent) <= 1
        /\ (WorkerBetweenItems /\ ~is_terminated_ => sent = popped)
        /\ IsSubseq(xadds, sent)
        /\ \A i \in 1..Len(sent) : \A j \in 1..Len(sent) :
              sent[i] = sent[j] => i = j)
  /\ [][ /\ Len(xadds') <= Len(xadds) + 1
         /\ Len(sent') <= Len(sent) + 1
         /\ (xadds' # xadds => /\ pc[Worker] = "w_send"
                               /\ xadds' = Append(xadds, popped[Len(popped)])) ]_vars

\* two append requests were written, for the two items dequeued, in order
C11_Witness ==
  /\ Len(popped) = 2
  /\ xadds = popped
  /\ popped[1].frame_number < popped[2].frame_number

\* C12: whatever the outcome of a publish, the worker's next position is the
\* top of its loop; it reaches its exit only with the running flag cleared or
\* the queue terminated; and every item dequeued before the one in hand has
\* been handed to publish.
C12_FailureIsolation ==
  /\ [](/\ IsPrefix(sent, popped)
        /\ (~WorkerExited => Len(sent) >= Len(popped) - 1))
  /\ [][ /\ (pc[Worker] = "w_send" /\ pc'[Worker] # "w_send"
               => pc'[Worker] = "w_loop")
         /\ (pc'[Worker] = "w_done" /\ pc[Worker] # "w_done"
               => ~vlm_thread_running \/ is_terminated_) ]_vars

\* a publish stored nothing for one item and the worker handed over, and
\* stored, a later one
C12_Witness ==
  /\ Len(sent) >= 2
  /\ sent[1] \notin StoredItems
  /\ sent[Len(sent)] \in StoredItems
  /\ pc[Worker] = "w_loop"

\* C13: stop clears the running flag before it terminates the queue and
\* terminates the queue before it joins; once it has returned the worker has
\* exited and nothing more is handed to publish.
C13_ShutdownProtocol ==
  /\ [](/\ (pc[App] \in {"term_set", "term_notify", "stop_join"}
              => ~vlm_thread_running)
        /\ (pc[App] = "stop_join" => is_terminated_ /\ termDone)
        /\ (StopReturned => WorkerExited))
  /\ [][StopReturned => sent' = sent /\ xadds' = xadds]_vars

\* callers with a command or AUTH written and its reply not yet taken
InExchange == { c \in Callers : pc[c] \in {"r_wait", "r_auth"} }

\* the step in which c's connection attempt ends without a connection: the
\* server is unreachable, or AUTH is refused or gets no reply
ConnectRefused(c) ==
  \/ /\ pc[c] = "r_connect"
     /\ ~connected_
     /\ net = "down"
     /\ pc'[c] # "r_connect"
  \/ /\ pc[c] = "r_auth"
     /\ (auth \in {"refused", "silent"} \/ net = "down")
     /\ (pc'[c] # "r_auth" \/ fault' # fault)

\* the ids returned by the group reads, in the order the reads were served
RECURSIVE AllIds(_)
AllIds(rs) == IF rs = << >> THEN << >> ELSE Head(rs).ids \o AllIds(Tail(rs))

\* C14: when a connection attempt ends without a connection (server
\* unreachable, authentication refused or unanswered) the call returns its
\* empty/false value, no command is written, nothing faults, and the client
\* is left disconnected with no handle.
C14_FailedConnectDegrades ==
  [][\A c \in Callers :
       ConnectRefused(c) =>
         /\ fault' = "none"
         /\ ~connected_'
         /\ context_' = "null"
         /\ pc'[c] = "idle"
         /\ ~rres'[c].ok
         /\ xadds' = xadds
         /\ stream' = stream]_vars

\* C15: on a client built without a password, a call entered after a
\* command failed with a transport fault runs connect() before it sends,
\* and an append entered then that ends while the server is reachable
\* returns an id.
C15_LazyReconnect ==
  auth = "none" =>
    \A c \in Callers :
      /\ (pc[c] = "r_cmd" /\ op[c].lost => op[c].recon)
      /\ (rres[c].kind = "xadd" /\ rres[c].lost /\ rres[c].up => rres[c].ok)

\* C16: at most one command/reply exchange is in progress on the connection,
\* and the caller in it holds mutex_.
C16_ExchangesSerialized ==
  /\ Cardinality(InExchange) <= 1
  /\ \A c \in InExchange : mutex_ = c

\* one caller is in an exchange while the other has passed its connection
\* check and waits to send
C16_Witness ==
  \E c \in Callers : \E d \in Callers \ {c} :
    pc[c] = "r_wait" /\ pc[d] = "r_cmd"

\* C17: from a caller's connection check to its send the client stays
\* connected with a handle, and no command is sent on an absent handle.
C17_CheckAndSendExclusive ==
  /\ \A c \in Callers : pc[c] = "r_cmd" => IsConnected(connected_, context_)
  /\ fault # "null_handle"

\* C18: a group read served while records delivered earlier are still
\* unacknowledged returns at least one of them.
C18_PendingRedelivered ==
  \A i \in 1..Len(reads) :
    reads[i].pend # {} =>
      \E j \in 1..Len(reads[i].ids) : reads[i].ids[j] \in reads[i].pend

\* C19: over all group reads served for the group, the ids returned are
\* strictly ascending in serving order (so none is returned twice), and no
\* read returns a record that was pending when it was served.
C19_OnlyNewAscending ==
  /\ \A i \in 1..Len(AllIds(reads)) : \A j \in 1..Len(AllIds(reads)) :
       i < j => AllIds(reads)[i] < AllIds(reads)[j]
  /\ \A i \in 1..Len(reads) : \A j \in 1..Len(reads[i].ids) :
       reads[i].ids[j] \notin reads[i].pend

\* two consumers were served in turn: the first got a record, the second was
\* served while that record was still pending
C19_Witness ==
  /\ Len(reads) = 2
  /\ reads[1].by # reads[2].by
  /\ reads[1].ids # << >>
  /\ reads[2].pend # {}

\* C20: group creation returns success exactly when the server created the
\* group or answered that it exists, failure for another error, a missing
\* reply or no connection; a create served for an existing group leaves its
\* cursor, its pending set and the stream as they were.
C20_IdempotentGroupCreate ==
  /\ [](\A c \in Callers :
          rres[c].kind = "xgroup_create" =>
            (rres[c].ok <=> rres[c].was \in {"created", "existed"}))
  /\ [][\A c \in Callers :
          /\ pc[c] = "r_cmd"
          /\ op[c].kind = "xgroup_create"
          /\ grp.exists
          /\ pc'[c] # "r_cmd"
          => grp' = grp /\ stream' = stream]_vars

\* a create on the existing group, whose cursor had advanced and which had a
\* record pending, returned success and the pending record is still there
C20_Witness ==
  \E c \in Callers :
    /\ rres[c].kind = "xgroup_create"
    /\ rres[c].was = "existed"
    /\ rres[c].ok
    /\ grp.last > 0
    /\ grp.pel # {}

\* the step in which c returns from xack
AckReturns(c) ==
  /\ op[c].kind = "xack"
  /\ pc[c] \in {"r_connect", "r_cmd", "r_wait"}
  /\ pc'[c] = "idle"

\* C21 as stated: an ack whose command was served returns true iff the record
\* was pending when it was served, and then the record has left the pending
\* set; an ack that returns false has changed nothing; an ack that ends on a
\* failed connection returns false and changes nothing.
C21_AckIffPending ==
  [][\A c \in Callers :
       AckReturns(c) =>
         IF pc[c] = "r_wait"
         THEN /\ rres'[c].ok <=> op[c].arg \in op[c].pend
              /\ rres'[c].ok => grp'.pel = op[c].pend \ {op[c].arg}
              /\ ~rres'[c].ok => grp'.pel = op[c].pend
         ELSE ~rres'[c].ok /\ grp' = grp]_vars

\* C21 amended: an ack returns true iff its command was served while the
\* record was pending and the reply arrived; the served command removes
\* exactly that record from the pending set, also when the reply is lost and
\* the call returns false; an ack that finds no usable connection, or whose
\* record is not pending, returns false and changes nothing.
C21_AckIffPendingAndAnswered ==
  [][\A c \in Callers :
       AckReturns(c) =>
         IF pc[c] = "r_wait"
         THEN /\ rres'[c].ok <=> (op[c].arg \in op[c].pend /\ net = "up")
              /\ grp.pel = op[c].pend \ {op[c].arg}
              /\ grp' = grp
              /\ stream' = stream
         ELSE ~rres'[c].ok /\ grp' = grp /\ stream' = stream]_vars

\* the first ack of a delivered record returned true and nothing is pending
C21_Witness ==
  \E c \in Callers :
    /\ rres[c].kind = "xack"
    /\ rres[c].ok
    /\ rres[c].was = "acked"
    /\ grp.last > 0
    /\ grp.pel = {}

\* the step in which a call named c of the sequential caller returns
Returns(c) == nops' = nops + 1 /\ out' # out /\ out'.call = c

\* the command written in this step was served and answered
Answered == wire' # wire /\ net = "up"

\* the ids of the records of a stream, as printed
PrintedIds(str) == [i \in 1..Len(str) |-> FormatId(str[i].id)]

\* C22: a range over a whole stream that is answered returns the records'
\* ids in stream order, ascending, at most limit of them when limit > 0; if
\* it follows an append that returned id X on an empty stream and limit >= 1,
\* it returns exactly one record, with id X and the appended fields.
C22_AppendRangeRoundTrip ==
  [][(Returns("xrange") /\ Answered) =>
       LET key   == out'.arg.key
           limit == out'.arg.count
           got   == out'.val
       IN  /\ Ids(got) = FirstN(PrintedIds(db[key]),
                                IF limit > 0 THEN limit ELSE Len(db[key]))
           /\ \A i \in 1..Len(db[key]) : \A j \in 1..Len(db[key]) :
                 i < j => IdLess(db[key][i].id, db[key][j].id)
           /\ (out.call = "xadd" /\ out.val # << >> /\ out.arg.key = key
                 /\ Len(db[key]) = 1 /\ limit # 0)
               => /\ Len(got) = 1
                  /\ got[1].id = out.val
                  /\ got[1].fields = out.arg.fields]_vars

\* C23: every XADD the client writes asks for a generated id (*), and each
\* append that returns an id has stored one record under that id, which is
\* not below the id of the record stored before it in (timestamp, sequence)
\* order, whatever the server's clock read.
C23_AppendMonotonic ==
  /\ [](/\ \A i \in 1..Len(wire) :
             wire[i].cmd = "XADD" => wire[i].args[1] = Str("*")
        /\ \A k \in Keys : \A i \in 1..Len(db[k]) : \A j \in 1..Len(db[k]) :
             i < j => IdLeq(db[k][i].id, db[k][j].id))
  /\ [][(Returns("xadd") /\ out'.val # << >>) =>
          LET key == out'.arg.key IN
            /\ Len(db'[key]) = Len(db[key]) + 1
            /\ SubSeq(db'[key], 1, Len(db[key])) = db[key]
            /\ out'.val = FormatId(LastId(db'[key]))
            /\ ParseId(out'.val) = LastId(db'[key])
            /\ IdLeq(LastId(db[key]), ParseId(out'.val))]_vars

\* the second of two appends was served with an earlier clock reading than
\* the first and got the next sequence number of the same millisecond
C23_Witness ==
  /\ Len(db["s"]) = 2
  /\ db["s"][1].id = << MaxClock, 0 >>
  /\ db["s"][2].id = << MaxClock, 1 >>
  /\ out.call = "xadd"
  /\ out.val = FormatId(db["s"][2].id)

\* C24: an append returns an empty id only when the server cannot be reached,
\* and an append that returns an id has stored one more record under its key.
C24_AppendFailsOnlyWhenUnavailable ==
  [][Returns("xadd") =>
       /\ (out'.val = << >> => net = "down")
       /\ (out'.val # << >> =>
             Len(db'[out'.arg.key]) = Len(db[out'.arg.key]) + 1)]_vars

\* the same for appends of at least one field
C24_NonEmptyAppendFailsOnlyWhenUnavailable ==
  [][(Returns("xadd") /\ out'.arg.fields # << >>) =>
       (out'.val = << >> => net = "down")]_vars

\* C25: whatever the shape of the reply, xread, xrange, xreadgroup and
\* xinfo_stream return a result and raise nothing.
C25_MalformedRepliesNeverRaise ==
  out.call \in {"xread", "xrange", "xreadgroup", "xinfo_stream"} => ~out.thrown

LastRecord(str) == str[Len(str)]

\* the field map of a stored record, as a reader gets it
StoredFields(rec) == ParseStreamMessage(Entry(rec)).msg.fields

\* the step appended exactly one record to key and left the other keys alone
AppendedOneTo(key) ==
  /\ Len(db'[key]) = Len(db[key]) + 1
  /\ SubSeq(db'[key], 1, Len(db[key])) = db[key]
  /\ \A k \in Keys \ {key} : db'[k] = db[k]

\* a publish that returned an id appended one record to the results stream,
\* of type typ, with the caller's numbers in decimal, the model tag, the
\* payload (whole, or as the C string sent when cut), and a timestamp field
PublishedResult(typ, cut) ==
  (Returns("add_vlm_result") /\ out'.val # << >>) =>
    LET a == out'.arg
        f == StoredFields(LastRecord(db'[vlm_stream_]))
    IN  /\ AppendedOneTo(vlm_stream_)
        /\ DOMAIN f = { Str("frame_number"), Str("source_id"),
                        Str("vlm_response"), Str("model_name"),
                        Str("timestamp"), Str("type") }
        /\ f[Str("type")] = typ
        /\ f[Str("frame_number")] = To_string(a.frame_number)
        /\ f[Str("source_id")] = To_string(a.source_id)
        /\ f[Str("model_name")] = a.model_name
        /\ f[Str("vlm_response")] =
             IF cut THEN SubSeq(a.vlm_response, 1,
                                IF Find(a.vlm_response, NUL) = 0
                                THEN Len(a.vlm_response)
                                ELSE Find(a.vlm_response, NUL) - 1)
             ELSE a.vlm_response

PublishedFrameMetadata ==
  (Returns("add_frame_metadata") /\ out'.val # << >>) =>
    LET a == out'.arg
        f == StoredFields(LastRecord(db'[frame_stream_]))
    IN  /\ AppendedOneTo(frame_stream_)
        /\ f[Str("type")] = Str("frame_metadata")
        /\ f[Str("frame_number")] = To_string(a.frame_number)
        /\ f[Str("source_id")] = To_string(a.source_id)
        /\ f[Str("width")] = To_string(a.width)
        /\ f[Str("height")] = To_string(a.height)
        /\ f[Str("format")] = a.format

Fetched(count) ==
  FirstN(db[vlm_stream_], IF 2 * count < Len(db[vlm_stream_])
                          THEN 2 * count ELSE Len(db[vlm_stream_]))

\* positions of the fetched records that carry source_id = the given source
RECURSIVE Matching(_, _)
Matching(recs, source_id) ==
  IF recs = << >> THEN << >>
  ELSE (IF Str("source_id") \in DOMAIN StoredFields(Head(recs))
           /\ StoredFields(Head(recs))[Str("source_id")] = To_string(source_id)
        THEN << FormatId(Head(recs).id) >> ELSE << >>)
         \o Matching(Tail(recs), source_id)

\* C27: a fetch by source that was answered returns at most count records,
\* every one with a source_id field equal to the source asked for, and they
\* are the first matching records among the first 2*count records of the
\* results stream, in ascending id order.
C27_FetchBySourceFilters ==
  [][(Returns("get_vlm_results_by_source") /\ Answered) =>
       LET q   == out'.arg
           got == out'.val
           m   == Matching(Fetched(q.count), q.source_id)
       IN  /\ ~out'.thrown
           /\ Len(got) <= q.count
           /\ \A i \in 1..Len(got) :
                /\ Str("source_id") \in DOMAIN got[i].fields
                /\ got[i].fields[Str("source_id")] = To_string(q.source_id)
           /\ Ids(got) = FirstN(m, IF q.count < Len(m) THEN q.count ELSE Len(m))]_vars

\* the same for fetches with a count of at least one
C27_FetchBySourcePositiveCount ==
  [][(Returns("get_vlm_results_by_source") /\ Answered /\ out'.arg.count >= 1) =>
       \A i \in 1..Len(out'.val) :
          Str("source_id") \in DOMAIN out'.val[i].fields]_vars

\* the commands the step wrote
Sent == SubSeq(wire', Len(wire) + 1, Len(wire'))

\* every stream keeps the records it had, in place
RecordsKept == \A k \in Keys : SubSeq(db'[k], 1, Len(db[k])) = db[k]

\* C28: configure_streams replaces the three names and writes nothing but a
\* group create for the new group on the new results stream and then on the
\* new frame stream, both of them when the connection works, creating the
\* groups that did not exist and keeping those that did; no command of any
\* call deletes or moves a record; every publish, fetch and acknowledge
\* uses the names in force when it is issued.
C28_Reconfiguration ==
  [][/\ Returns("configure_streams") =>
          /\ vlm_stream_' = out'.arg.vlm_stream
          /\ frame_stream_' = out'.arg.frame_stream
          /\ consumer_group_' = out'.arg.consumer_group
          /\ db' = db
          /\ groups \subseteq groups'
          /\ Len(Sent) <= 2
          /\ \A i \in 1..Len(Sent) :
               /\ Sent[i].cmd = "XGROUP CREATE"
               /\ Sent[i].key = IF i = 1 THEN vlm_stream_' ELSE frame_stream_'
               /\ Sent[i].args = << << consumer_group_' >>, << "0" >>,
                                    << "MKSTREAM" >> >>
          /\ (context_' = "open" /\ net = "up") =>
               /\ Len(Sent) = 2
               /\ groups' = groups \cup { << vlm_stream_', consumer_group_' >>,
                                          << frame_stream_', consumer_group_' >> }
     /\ RecordsKept
     /\ \A i \in 1..Len(Sent) :
          Sent[i].cmd \in {"XADD", "XRANGE", "XACK", "XGROUP CREATE"}
     /\ Returns("add_vlm_result") =>
          /\ \A i \in 1..Len(Sent) :
               Sent[i].cmd = "XADD" /\ Sent[i].key = vlm_stream_
          /\ \A k \in Keys \ {vlm_stream_} : db'[k] = db[k]
     /\ Returns("add_frame_metadata") =>
          /\ \A i \in 1..Len(Sent) :
               Sent[i].cmd = "XADD" /\ Sent[i].key = frame_stream_
          /\ \A k \in Keys \ {frame_stream_} : db'[k] = db[k]
     /\ Returns("get_vlm_results_by_source") =>
          /\ \A i \in 1..Len(Sent) :
               Sent[i].cmd = "XRANGE" /\ Sent[i].key = vlm_stream_
          /\ db' = db
     /\ Returns("ack_message") =>
          /\ \A i \in 1..Len(Sent) :
               Sent[i].cmd = "XACK" /\ Sent[i].args[1] = << consumer_group_ >>
          /\ db' = db]_vars

\* a result was published under the default name, the names were changed,
\* and the next result went to the new stream while the old one kept its
\* record; the new group exists on the new stream
C28_Witness ==
  /\ vlm_stream_ = "s"
  /\ consumer_group_ = "g"
  /\ out.call = "add_vlm_result"
  /\ out.val # << >>
  /\ Len(db["s"]) = 1
  /\ Len(db["vlm:results:stream"]) = 1
  /\ << "s", "g" >> \in groups
  /\ << "vlm:frames:stream", "g" >> \in groups

\* C29: the producer's try_pop removes an item only from a queue that holds
\* exactly vlm_queue_max_size items at that instant, and it removes one item.
C29_EvictionOnlyWhenFull ==
  [][evicted' # evicted =>
       /\ Size(data_queue_) = vlm_queue_max_size
       /\ Len(evicted') = Len(evicted) + 1]_vars

\* the items a producer can queue
QueueItems ==
  { VLMFrameData(src, n) : src \in {0, 1}, n \in 1..MaxBatches }

InQueue(v) == \E i \in 1..Len(data_queue_) : data_queue_[i] = v

ReturnedToWorker(v) == \E i \in 1..Len(popped) : popped[i] = v

EvictedByProducer(v) == \E i \in 1..Len(evicted) : evicted[i] = v

\* the worker thread is inside its loop
WorkerInLoop ==
  pc[Worker] \in {"w_loop", "wap_lock", "wap_block", "wap_waiting",
                  "wap_check", "w_ret", "w_send"}

\* the element is being stopped, or the process has ended
Stopping == is_terminated_ \/ ~vlm_thread_running \/ aborted

\* C30 as stated: an item pushed while the worker is in its loop and nothing
\* is being stopped is eventually returned to the worker by wait_and_pop().
C30_PushedItemReturned ==
  \A v \in QueueItems :
    (InQueue(v) /\ WorkerInLoop /\ ~Stopping)
      ~> (ReturnedToWorker(v) \/ Stopping)

\* C30 amended: such an item is eventually returned to the worker unless the
\* producer evicts it first, and the worker is never parked while the queue
\* holds an item.
C30_PushWakesWorker ==
  /\ [](pc[Worker] = "wap_waiting" => data_queue_ = << >>)
  /\ \A v \in QueueItems :
       (InQueue(v) /\ WorkerInLoop /\ ~Stopping)
         ~> (ReturnedToWorker(v) \/ EvictedByProducer(v) \/ Stopping)

\* the worker was parked on the empty queue, an item was pushed, and
\* wait_and_pop() has just returned it
C30_Witness ==
  /\ pc[Worker] = "w_ret"
  /\ res[Worker] # << >>
  /\ late[Worker] = FALSE
  /\ popped = pushed
  /\ Len(pushed) = 1
  /\ ~Stopping

\* C31: the worker leaves its loop from wait_and_pop() only when that call
\* returned none, and once it has left, every item wait_and_pop() returned
\* has been handed to gst_dsexample_send_to_vlm_service.
C31_DequeuedReachesPublish ==
  /\ [][(pc[Worker] = "w_ret" /\ pc'[Worker] = "w_done") =>
          res[Worker] = << >>]_vars
  /\ [](pc[Worker] = "w_done" => sent = popped)

NoRepeat(q) == \A i \in 1..Len(q) : \A j \in 1..Len(q) : q[i] = q[j] => i = j

\* C32: the admitted items are distinct and each is in exactly one place:
\* evicted by the producer, dequeued by the worker, or still in the queue;
\* the worker hands the dequeued items over once each, in dequeue order, and
\* writes at most one append per item handed over.
C32_OwnershipTransfer ==
  /\ NoRepeat(pushed)
  /\ Len(pushed) = Len(evicted) + Len(popped) + Len(data_queue_)
  /\ Range(pushed) = Range(evicted) \cup Range(popped) \cup Range(data_queue_)
  /\ IsPrefix(sent, popped)
  /\ Len(popped) <= Len(sent) + 1
  /\ IsSubseq(xadds, sent)

\* one item was evicted by the producer, the other was dequeued and its one
\* append attempt made; the worker is back between items
C32_Witness ==
  /\ Len(evicted) = 1
  /\ Len(popped) = 1
  /\ sent = popped
  /\ data_queue_ = << >>
  /\ WorkerBetweenItems

\* C33: when gst_dsexample_stop has returned, no worker thread that a start
\* launched is still running or unjoined, and no start ever finds the thread
\* object still holding an unjoined thread.
C33_StartedWorkerStopped ==
  /\ (StopReturned /\ nstarts > 0) => (~joinable /\ WorkerExited)
  /\ ~aborted

\* the element runs again after a stop that called terminate()
RestartedAfterTerminate == is_terminated_ /\ pc[App] = "started"

\* C34: the terminated flag is never cleared; with the flag set, a
\* wait_and_pop() that returns gives none and leaves the queue alone, while a
\* push still appends its item, the producer's try_pop still removes the
\* front item, and terminate()'s own two statements leave the queue
\* unchanged; while the element runs again after such a stop, nothing is
\* dequeued by the worker or handed to the publish step.
C34_TerminationPermanent ==
  [][/\ is_terminated_ => is_terminated_'
     /\ (is_terminated_ /\ WapReturns(Worker)) =>
          /\ res'[Worker] = << >>
          /\ data_queue_' = data_queue_
     /\ pushed' # pushed =>
          /\ Len(pushed') = Len(pushed) + 1
          /\ data_queue_' = Append(data_queue_, pushed'[Len(pushed')])
     /\ (pc["p1"] = "p_drop" /\ pc'["p1"] # "p_drop" /\ data_queue_ # << >>) =>
          /\ data_queue_' = Tail(data_queue_)
          /\ evicted' = Append(evicted, Head(data_queue_))
     /\ (pc[App] \in {"term_set", "term_notify"} /\ pc'[App] # pc[App]) =>
          data_queue_' = data_queue_
     /\ RestartedAfterTerminate =>
          /\ sent' = sent
          /\ popped' = popped
          /\ pc'[Worker] # "w_send"]_vars

\* after start, stop, start the worker has exited without publishing, the
\* queue is at capacity and the producer is about to evict from it
C34_Witness ==
  /\ RestartedAfterTerminate
  /\ nstarts = 2
  /\ pc[Worker] = "w_done"
  /\ sent = << >>
  /\ Len(data_queue_) = vlm_queue_max_size
  /\ pc["p1"] = "p_drop"


\* the step in which a connect() entered by caller c on a disconnected
\* client returns false: redisConnect gave no usable handle, or AUTH was
\* answered with an error
ConnectReturnsFalse(c) ==
  /\ pc[c] \in {"r_connect", "r_auth"}
  /\ pc'[c] = "idle"
  /\ ~rres'[c].ok
  /\ fault' = "none"

\* the step in which caller c enters connect() on a client whose connected_
\* is already set
ConnectWhenConnected(c) ==
  /\ pc[c] = "r_connect"
  /\ connected_
  /\ pc'[c] # "r_connect"

LastDelivered(key, group) ==
  LET mine == SelectSeq(reads, LAMBDA r : r.key = key /\ r.group = group) IN
  IF mine = << >> THEN << 0, 0 >> ELSE mine[Len(mine)].last

\* XREADGROUP GROUP <group> <consumer> [BLOCK <ms>] COUNT <n> STREAMS <key> >
\* on a server where the group's last-delivered id is last: NOGROUP for a
\* group that was never created, nil when the block time passes with no new
\* record, else [[key, [entry, ...]]]
LogReadGroup(sv, key, group, count, last) ==
  LET new == SelectSeq(sv.db[key], LAMBDA r : IdLess(last, r.id))
      n   == Min(count, Len(new))
  IN  IF << key, group >> \notin sv.groups
      THEN [db |-> sv.db, groups |-> sv.groups, last |-> last,
            reply |-> ErrorReply(<< "NOGROUP", "No", "such", "key", "or",
                                    "consumer", "group" >>)]
      ELSE IF n = 0
      THEN [db |-> sv.db, groups |-> sv.groups, last |-> last,
            reply |-> NilReply]
      ELSE [db |-> sv.db, groups |-> sv.groups, last |-> new[n].id,
            reply |-> ArrayReply(<< ArrayReply(<<
                        StringReply(Str(key)),
                        ArrayReply([i \in 1..n |-> Entry(new[i])]) >>) >>)]

\* xreadgroup(group_name, consumer_name, stream_key, count, block_ms)
Xreadgroup(cl, group_name, consumer_name, stream_key, count, block_ms, last) ==
  LET c  == [cmd |-> "XREADGROUP", key |-> stream_key,
             args |-> << Str("GROUP"), Str(group_name), Str(consumer_name) >> \o
                      (IF block_ms > 0
                       THEN << Str("BLOCK"), To_string(block_ms) >> ELSE << >>) \o
                      << Str("COUNT"), To_string(count), Str("STREAMS"),
                         Str(stream_key), Str(">") >>]
      sv == LogReadGroup(cl, stream_key, group_name, count, last)
      r  == Exchange(cl, c, sv)
      p  == ParseXReadArray(r.reply)
  IN  [state |-> r.state, val |-> p.msgs, thrown |-> p.thrown,
       last |-> IF r.reply.type = "array" THEN sv.last ELSE last]

\* get_vlm_results_range: the ids <start>-0 and <end>-0 given to xrange
GetVlmResultsRange(cl, key, start_timestamp, end_timestamp, count) ==
  Xrange(cl, key, To_string(start_timestamp) \o << Dash, "0" >>,
         To_string(end_timestamp) \o << Dash, "0" >>, count)

\* get_latest_vlm_results(count, block_ms)
M_GetLatestVlmResults(count, block_ms) ==
  /\ CallStarts
  /\ LET r == Xreadgroup(Client, consumer_group_, "deepstream_vlm",
                         vlm_stream_, count, block_ms,
                         LastDelivered(vlm_stream_, consumer_group_)) IN
       /\ connected_' = r.state.connected
       /\ context_' = r.state.context
       /\ db' = r.state.db
       /\ groups' = r.state.groups
       /\ wire' = r.state.wire
       /\ fault' = r.state.fault
       /\ out' = [call |-> "get_latest_vlm_results",
                  arg |-> [count |-> count, block_ms |-> block_ms],
                  val |-> r.val, thrown |-> r.thrown]
       /\ reads' = IF r.last # LastDelivered(vlm_stream_, consumer_group_)
                   THEN Append(reads, [key |-> vlm_stream_,
                                       group |-> consumer_group_,
                                       last |-> r.last])
                   ELSE reads
  /\ nops' = nops + 1
  /\ UNCHANGED << mutex_, net, auth, stream, grp, op, rres, xadds,
                  vlm_stream_, frame_stream_, consumer_group_ >>
  /\ UNCHANGED queue_vars
  /\ UNCHANGED plugin_vars
  /\ UNCHANGED pc

\* get_vlm_results_range(start_timestamp, end_timestamp, count)
M_GetVlmResultsRange(start_timestamp, end_timestamp, count) ==
  /\ CallStarts
  /\ LET r == GetVlmResultsRange(Client, vlm_stream_, start_timestamp,
                                 end_timestamp, count) IN
       CallEnds(r.state, [call |-> "get_vlm_results_range",
                          arg |-> [start_timestamp |-> start_timestamp,
                                   end_timestamp |-> end_timestamp,
                                   count |-> count],
                          val |-> r.val, thrown |-> r.thrown])
  /\ UNCHANGED << vlm_stream_, frame_stream_, consumer_group_ >>

\* counts given to get_latest_vlm_results (10 is its default), with the
\* default block time
DefaultBlockMs == 1000

ReadCounts == {1, 10}

\* counts given to get_vlm_results_range (100 is its default)
RangeCounts == {1, 100}

\* the manager's caller publishes results, reads them through the group and
\* by time range, and renames the streams and the group
NextF ==
  \/ \E ms \in 1..MaxClock :
       M_AddVlmResult(nops + 1, 0, Str("r"), Str("deepstream_vlm_v1"), 12, ms)
  \/ \E count \in ReadCounts : M_GetLatestVlmResults(count, DefaultBlockMs)
  \/ \E t1 \in 0..MaxClock : \E t2 \in t1..MaxClock : \E count \in RangeCounts :
       M_GetVlmResultsRange(t1, t2, count)
  \/ M_ConfigureStreams("s", "vlm:frames:stream", "g")
  \/ (fault = "none" /\ NetChange)

SpecF == InitM /\ [][NextF]_vars


\* C36: every group read written to the handle is preceded on the same
\* handle history by a group create, written by this manager, for the same
\* stream and the same group name, also when the constructor's connect()
\* failed and a later call made the connection.
C36_GroupCreatedBeforeRead ==
  \A i \in 1..Len(wire) :
    wire[i].cmd = "XREADGROUP" =>
      \E j \in 1..(i - 1) :
        /\ wire[j].cmd = "XGROUP CREATE"
        /\ wire[j].key = wire[i].key
        /\ wire[j].args[1] = wire[i].args[2]

\* the records of the results stream whose id's millisecond part lies in
\* start..end, in the stream's order
InTimeRange(start_timestamp, end_timestamp) ==
  SelectSeq(db[vlm_stream_],
            LAMBDA r : start_timestamp <= r.id[1] /\ r.id[1] <= end_timestamp)

\* C37: a range read that was answered returns the first count records of
\* the results stream whose id's millisecond part t has start <= t <= end,
\* in ascending order, whatever their sequence number.
C37_RangeByTimestamp ==
  [][(Returns("get_vlm_results_range") /\ Answered) =>
       LET q    == out'.arg
           hits == InTimeRange(q.start_timestamp, q.end_timestamp)
       IN  /\ ~out'.thrown
           /\ Ids(out'.val) =
                [i \in 1..Min(q.count, Len(hits)) |-> FormatId(hits[i].id)]]_vars


\* ------------------------------------------- frame numbers on their way out
\* A 64-bit unsigned value, held as its two 32-bit words: hi * 2^32 + lo.
U64(hi, lo) == [hi |-> hi, lo |-> lo]

\* a 64-bit value passed for a uint32_t parameter: the value modulo 2^32,
\* which is its low word
ToUint32(v) == v.lo

\* the frames handed to the worker: sourceId is 32 bits wide, frameNumber 64;
\* frame numbers below and from 2^32 on
SampledEvents ==
  { [source_id |-> src, frame_number |-> U64(hi, lo)] :
      src \in {0, 1}, hi \in {0, 1}, lo \in {0, 7} }

\* gst_dsexample_send_to_vlm_service(dsexample, frame_data) for a frame the
\* worker dequeued, redis_enabled set and the manager built: one
\* add_vlm_result(frame_data->frame_number, frame_data->source_id,
\* vlm_response, "deepstream_vlm_v1"), whose first two parameters are
\* uint32_t; the manager's clock reads now, the server's ms
T_SendToVlmService(frame_data, now, ms) ==
  /\ CallStarts
  /\ LET r == Xadd(Client, vlm_stream_,
                   VlmResultFields(ToUint32(frame_data.frame_number),
                                   frame_data.source_id, Str("description"),
                                   Str("deepstream_vlm_v1"), now), ms) IN
       CallEnds(r.state, [call |-> "send_to_vlm_service",
                          arg |-> [frame_data |-> frame_data],
                          val |-> r.val, thrown |-> r.thrown])
  /\ UNCHANGED << vlm_stream_, frame_stream_, consumer_group_ >>

\* the worker publishes the frames it dequeued, one call after the other
NextT ==
  \/ \E e \in SampledEvents : \E ms \in 1..MaxClock :
       T_SendToVlmService(e, 12, ms)
  \/ (fault = "none" /\ NetChange)

SpecT == InitM /\ [][NextT]_vars

\* C38: the record stored for a dequeued frame carries, in frame_number and
\* source_id, the decimal text of that frame's 64-bit frame number and of its
\* source id.
C38_FrameNumberPreserved ==
  [][(Returns("send_to_vlm_service") /\ Answered /\ out'.val # << >>) =>
       LET f == StoredFields(LastRecord(db'[vlm_stream_]))
           e == out'.arg.frame_data
       IN  /\ U64(0, Stoull(f[Str("frame_number")]).val) = e.frame_number
           /\ f[Str("source_id")] = To_string(e.source_id)]_vars

====
